---------------------------- MODULE Spec2Model ----------------------------
(***************************************************************************)
(* A model of the mynta-stratum solo-mining Stratum server:                *)
(*   - Server        (class.Server.js):   listener, client map, stop       *)
(*   - Job           (class.Job.js):      per-job duplicate-share set      *)
(*   - RpcClient     (class.RpcClient.js): cmd with retry                  *)
(*   - Stratum       (class.Stratum.js):  submitShare, block submission    *)
(*   - VarDiff       (class.VarDiff.js):  checkAdjustment                  *)
(* Each subsystem has its own next-state relation and specification, and  *)
(* an initial condition that draws the configurations it is run under.     *)
(***************************************************************************)
EXTENDS Integers, Sequences, FiniteSets, TLC

(***************************************************************************)
(* Bounds of the model (not program constants).                            *)
(***************************************************************************)
\* Number of TCP connections the environment opens.
MaxConns == 3
\* Number of Server.stop() calls the environment makes.
MaxStopCalls == 2
\* Number of 'error' events of the listener once it is listening.
MaxServerErrors == 1
\* Number of Server.start() calls the environment makes.
MaxStartCalls == 2

VARIABLES
    \* ---- Server ----
    extraNonceCounter,  \* Server._extraNonceCounter (Counter)
    isStarted,          \* Server._isStarted
    isStopped,          \* Server._isStopped
    listener,           \* Server._server and its state
    clientMap,          \* Server._clientMap : extraNonce1Hex -> client
    conns,              \* the sockets / Client objects, by connection
    stopCallbacks,      \* per stop() call: how often its callback ran
    closeCalls,         \* how often _server.close() was called
    stopTimer,          \* the 5 s force-callback timer of stop()
    startCallbacks,     \* what start()'s callback was called with, in order
    serverErrors,       \* the EVENT_SERVER_ERROR events emitted, in order
    uncaught,           \* exceptions no handler of the program caught
    startCalls,         \* how often start() was called
    restartErrors,      \* the messages of the errors start() itself reported
    teardown            \* the calls stop() and destroy() made, in order

listenVars == <<startCallbacks, serverErrors, uncaught, startCalls,
                restartErrors, teardown>>

serverVars == <<extraNonceCounter, isStarted, isStopped, listener, clientMap,
                conns, stopCallbacks, closeCalls, stopTimer, listenVars>>

(***************************************************************************)
(* Hexadecimal text.  Strings are sequences of one-character strings.      *)
(***************************************************************************)
HexDigits == <<"0","1","2","3","4","5","6","7","8","9","a","b","c","d","e","f">>

RECURSIVE Pow(_, _)
Pow(b, e) == IF e = 0 THEN 1 ELSE b * Pow(b, e - 1)

\* n written as `len` lower-case hex digits, most significant first.
HexN(n, len) == [i \in 1..len |-> HexDigits[((n \div Pow(16, len - i)) % 16) + 1]]

\* Buffer.writeUInt32BE + toString('hex'): 8 hex characters.
Hex32(n) == HexN(n, 8)

(***************************************************************************)
(* Server                                                                  *)
(***************************************************************************)
Conns == 1..MaxConns

ShutdownReason == "Server shutting down"

NoConn == [st |-> "none", extraNonce1Hex |-> <<>>, isAuthorized |-> FALSE,
           disconnectReasons |-> <<>>, rejected |-> ""]

ServerInit ==
    /\ extraNonceCounter = 0
    /\ isStarted = FALSE
    /\ isStopped = FALSE
    /\ listener = "null"
    /\ clientMap = <<>>
    /\ conns = [c \in Conns |-> NoConn]
    /\ stopCallbacks = <<>>
    /\ closeCalls = 0
    /\ stopTimer = "unset"
    /\ startCallbacks = <<>>
    /\ serverErrors = <<>>
    /\ uncaught = <<>>
    /\ startCalls = 0
    /\ restartErrors = <<>>
    /\ teardown = <<>>

\* Map.delete(key)
MapDelete(m, k) == [x \in (DOMAIN m) \ {k} |-> m[x]]

\* Map.set(key, value)
MapSet(m, k, v) == [x \in (DOMAIN m) \cup {k} |-> IF x = k THEN v ELSE m[x]]

MsgAlreadyStarted ==
    <<"S", "t", "r", "a", "t", "u", "m", " ", "s", "e", "r", "v", "e", "r",
      " ", "i", "s", " ", "a", "l", "r", "e", "a", "d", "y", " ", "s", "t",
      "a", "r", "t", "e", "d", ".">>

\* start() goes on although the server is started.
MutStartNeverRejected == FALSE

\* start(): "if (_._isStarted)" reports an error and returns.
StartIsRejected == isStarted

\* Server.start(callback).  Of a server that is not started the net.Server
\* is created, its 'error' and 'close' handlers are set and listen() is
\* called; of a started one the callback gets an error at once.
Start ==
    /\ startCalls < MaxStartCalls
    /\ startCalls' = startCalls + 1
    /\ IF StartIsRejected
       THEN /\ restartErrors' = Append(restartErrors, MsgAlreadyStarted)
            /\ UNCHANGED <<isStarted, listener>>
       ELSE /\ isStarted' = TRUE
            /\ listener' = "binding"
            /\ UNCHANGED restartErrors
    /\ UNCHANGED <<extraNonceCounter, isStopped, clientMap, conns,
                   stopCallbacks, closeCalls, stopTimer, startCallbacks,
                   serverErrors, uncaught, teardown>>

\* Errors of the listener: listen() failing, and accept() failing later.
BindErrorCodes == {"EADDRINUSE", "EACCES"}
RuntimeErrorCodes == {"EMFILE"}
NoErrorCode == "null"

\* The event name Server.EVENT_SERVER_ERROR.
EVENT_SERVER_ERROR == "serverError"

\* The names of the events the Server object has listeners for.  Its own
\* code registers none; Stratum.init registers one for EVENT_SERVER_ERROR,
\* which reads ev.error.message and cannot throw.
ServerListeners == {}

\* EventEmitter.emit(name, ev): an 'error' event nobody listens for is
\* thrown; every other event without a listener is dropped.
EmitThrows(name, listeners) == name = "error" /\ name \notin listeners

\* net.Server.listening
Listening(l) == l = "listening"

\* An 'error' handler that calls start()'s callback for every error.
MutStartCallbackAlways(l) == TRUE

\* "if (!_._server.listening) callback(err)" in the 'error' handler.
StartCallbackOnError(l) == ~Listening(l)

\* The callback given to listen(): the listener is bound.
OnListening ==
    /\ listener = "binding"
    /\ listener' = "listening"
    /\ startCallbacks' = Append(startCallbacks, NoErrorCode)
    /\ UNCHANGED <<extraNonceCounter, isStarted, isStopped, clientMap, conns,
                   stopCallbacks, closeCalls, stopTimer, serverErrors, uncaught,
                   startCalls, restartErrors, teardown>>

\* The 'error' handler installed by start(), for an error with this code.
OnServerError(code) ==
    /\ \/ listener = "binding" /\ code \in BindErrorCodes
       \/ /\ listener = "listening" /\ code \in RuntimeErrorCodes
          /\ Len(serverErrors) < MaxServerErrors
    /\ serverErrors' = Append(serverErrors, code)
    /\ uncaught' = IF EmitThrows(EVENT_SERVER_ERROR, ServerListeners)
                   THEN Append(uncaught, code) ELSE uncaught
    /\ startCallbacks' = IF ~EmitThrows(EVENT_SERVER_ERROR, ServerListeners)
                            /\ StartCallbackOnError(listener)
                         THEN Append(startCallbacks, code) ELSE startCallbacks
    /\ listener' = IF listener = "binding" THEN "failed" ELSE listener
    /\ UNCHANGED <<extraNonceCounter, isStarted, isStopped, clientMap, conns,
                   stopCallbacks, closeCalls, stopTimer, startCalls,
                   restartErrors, teardown>>

\* Client.disconnect(reason): the client closes its socket.
ClientDisconnect(cl, reason) ==
    [cl EXCEPT !.st = "closed",
               !.disconnectReasons = Append(cl.disconnectReasons, reason)]

\* Counter.nextHex32() without the increment.
MutNextCounterStuck(counter) == counter

\* Counter.nextHex32(): the counter value after the increment.
NextCounter(counter) == counter + 1

\* _onClientConnect never rejects because of a stop.
MutRejectNever == FALSE

\* _onClientConnect: "if (_._isStopped)" rejects the connection.
RejectBecauseStopped == isStopped

\* stop() runs again although the server is stopped.
MutStopNeverNoop == FALSE

\* stop(): "if (_._isStopped)" makes the call a no-op but for its callback.
StopIsNoop == isStopped

\* Server._onClientConnect(port, netSocket) for connection c; hasRemote tells
\* whether netSocket.remoteAddress is set.
OnClientConnect(c, hasRemote) ==
    /\ listener \in {"listening", "closing"}
    /\ conns[c].st = "none"
    /\ IF RejectBecauseStopped \/ ~hasRemote
       THEN \* netSocket.destroy(); return
            /\ conns' = [conns EXCEPT ![c].st = "destroyed",
                                      ![c].rejected =
                                          IF RejectBecauseStopped
                                          THEN "stopped" ELSE "invalid"]
            /\ UNCHANGED <<extraNonceCounter, clientMap>>
       ELSE LET n == NextCounter(extraNonceCounter)
                hex == Hex32(n)
            IN /\ extraNonceCounter' = n
               /\ conns' = [conns EXCEPT ![c] = [st |-> "open",
                                extraNonce1Hex |-> hex,
                                isAuthorized |-> FALSE,
                                disconnectReasons |-> <<>>,
                                rejected |-> ""]]
               /\ clientMap' = MapSet(clientMap, hex, c)
    /\ UNCHANGED <<isStarted, isStopped, listener, stopCallbacks, closeCalls,
                   stopTimer, listenVars>>

\* The client of connection c authorizes (Client.isAuthorized becomes true).
ClientAuthorize(c) ==
    /\ conns[c].st = "open"
    /\ ~conns[c].isAuthorized
    /\ conns' = [conns EXCEPT ![c].isAuthorized = TRUE]
    /\ UNCHANGED <<extraNonceCounter, isStarted, isStopped, listener,
                   clientMap, stopCallbacks, closeCalls, stopTimer, listenVars>>

\* "get clientCount() { return this._clientMap.size; }"
ClientCount(m) == Cardinality(DOMAIN m)

\* The disconnect handler deletes the entry of the first client ever.
MutDisconnectKeyFirst(cl) == Hex32(1)

\* "_._clientMap.delete(client.subscriptionIdHex)": the client was made with
\* subscriptionIdHex: extraNonce1Hex.
DisconnectKey(cl) == cl.extraNonce1Hex

\* The miner closes connection c: the client emits EVENT_DISCONNECT and the
\* handler installed by _onClientConnect deletes client.subscriptionIdHex.
OnClientDisconnect(c) ==
    /\ conns[c].st = "open"
    /\ conns' = [conns EXCEPT ![c].st = "closed"]
    /\ clientMap' = MapDelete(clientMap, DisconnectKey(conns[c]))
    /\ UNCHANGED <<extraNonceCounter, isStarted, isStopped, listener,
                   stopCallbacks, closeCalls, stopTimer, listenVars>>

\* One call made while shutting down: on the job manager, on the clients
\* of one loop over the client map, or on the listener.
TeardownCall(name, cs) == [call |-> name, clients |-> cs]

\* _server.close() is called before the clients are disconnected.
MutCloseBeforeDisconnect(disconnects, close) == close \o disconnects

\* stop(): "Disconnect all clients first", then "_._server.close(...)".
StopCallOrder(disconnects, close) == disconnects \o close

\* The calls stop() makes on the clients of this map and on this listener.
StopCalls(map, l) ==
    StopCallOrder(
       IF DOMAIN map = {} THEN <<>>
       ELSE <<TeardownCall("client.disconnect", {map[k] : k \in DOMAIN map})>>,
       IF l # "null" THEN <<TeardownCall("server.close", {})>> ELSE <<>>)

\* stop() sets no timer after close().
MutNoGraceTimer == "unset"

\* stop(): "setTimeout(() => { ... callback && callback(); }, 5000)".
GraceTimer == "armed"

\* Server.stop(callback), called when these shutdown calls have been made.
StopFrom(calls) ==
    /\ Len(stopCallbacks) < MaxStopCalls
    /\ IF StopIsNoop
       THEN \* callback && callback(); return
            /\ stopCallbacks' = Append(stopCallbacks, 1)
            /\ teardown' = calls
            /\ UNCHANGED <<extraNonceCounter, isStarted, isStopped, listener,
                           clientMap, conns, closeCalls, stopTimer>>
       ELSE /\ isStopped' = TRUE
            /\ teardown' = calls \o StopCalls(clientMap, listener)
            /\ conns' = [c \in Conns |->
                            IF \E k \in DOMAIN clientMap : clientMap[k] = c
                            THEN ClientDisconnect(conns[c], ShutdownReason)
                            ELSE conns[c]]
            /\ clientMap' = <<>>
            /\ IF listener # "null"
               THEN /\ listener' = IF Listening(listener)
                                   THEN "closing" ELSE "closingUnbound"
                    /\ closeCalls' = closeCalls + 1
                    /\ stopTimer' = GraceTimer
                    /\ stopCallbacks' = Append(stopCallbacks, 0)
               ELSE /\ stopCallbacks' = Append(stopCallbacks, 1)
                    /\ UNCHANGED <<listener, closeCalls, stopTimer>>
            /\ UNCHANGED <<extraNonceCounter, isStarted>>
    /\ UNCHANGED <<startCallbacks, serverErrors, uncaught, startCalls,
                   restartErrors>>

\* Server.stop(callback)
Stop == StopFrom(teardown)

\* The callback of _server.close(): every connection has ended.
OnServerClosed ==
    /\ listener \in {"closing", "closingUnbound"}
    /\ \A c \in Conns : conns[c].st # "open"
    /\ listener' = "closed"
    /\ stopCallbacks' = [stopCallbacks EXCEPT ![1] = @ + 1]
    /\ UNCHANGED <<extraNonceCounter, isStarted, isStopped, clientMap, conns,
                   closeCalls, stopTimer, listenVars>>

\* The 5000 ms timer set by stop() fires.
OnStopTimeout ==
    /\ stopTimer = "armed"
    /\ stopTimer' = "fired"
    /\ stopCallbacks' = [stopCallbacks EXCEPT ![1] = @ + 1]
    /\ UNCHANGED <<extraNonceCounter, isStarted, isStopped, listener,
                   clientMap, conns, closeCalls, listenVars>>

(***************************************************************************)
(* VarDiff (class.VarDiff.js)                                              *)
(*                                                                         *)
(* Numbers.  Times are integers in milliseconds, as Date.now() gives them. *)
(* A difficulty is held as an integer number of units of 10^-7, so that    *)
(* every value toFixed(6) or toPrecision(6) can return, and values one     *)
(* decimal finer, are exact.  The quotient the code forms before it rounds *)
(* is kept as an exact fraction <<p, q>>; the binary floating-point error  *)
(* of the JavaScript doubles is not modelled.                              *)
(***************************************************************************)
\* Units per difficulty 1.0.
DiffOne == Pow(10, 7)
\* toFixed(6): one step of the sixth decimal place, in units.
FixedStep == DiffOne \div Pow(10, 6)
\* toPrecision(6): the significant digits kept.
SigDigits == 6
\* checkAdjustment needs at least this many share timestamps, and averages
\* over the last this many.
MinShares == 10
\* Math.min(Math.max(ratio, 0.25), 4): the bounds as fractions.
RatioFloor == <<1, 4>>
RatioCeil == <<4, 1>>

Abs(x) == IF x < 0 THEN -x ELSE x
MaxOf(a, b) == IF a > b THEN a ELSE b
MinOf(a, b) == IF a < b THEN a ELSE b

RECURSIVE GCD(_, _)
GCD(a, b) == IF b = 0 THEN a ELSE GCD(b, a % b)

\* The fraction n/d (d > 0) in lowest terms.
Reduce(n, d) == LET g == GCD(Abs(n), d) IN <<n \div g, d \div g>>

RECURSIVE NumDigits(_)
NumDigits(n) == IF n < 10 THEN 1 ELSE 1 + NumDigits(n \div 10)

\* p/q (q > 0, p >= 0) rounded to the nearest multiple of step, ties upwards.
RoundHalfUp(p, q, step) ==
    LET whole == p \div q
        rem   == p % q
        base  == (whole \div step) * step
        low   == whole - base
    IN IF 2 * (low * q + rem) >= step * q THEN base + step ELSE base

\* VarDiff._roundDifficulty(diff) for diff = p/q units:
\* diff >= 1: parseFloat(diff.toPrecision(6)); else parseFloat(diff.toFixed(6)).
RoundDifficulty(p, q) ==
    LET whole == p \div q
    IN IF whole >= DiffOne
       THEN RoundHalfUp(p, q, Pow(10, MaxOf(0, NumDigits(whole) - SigDigits)))
       ELSE RoundHalfUp(p, q, FixedStep)

\* new VarDiff(args): the engine's fields.  An absent optional number is 0
\* (undefined || 2 and 0 || 2 are both 2); useProportional is "undefined",
\* "true" or "false".
VarDiffNew(args) ==
    [enabled          |-> args.enabled,
     minDiff          |-> args.minDiff,
     maxDiff          |-> args.maxDiff,
     targetShareTime  |-> args.targetShareTime,
     retargetTime     |-> args.retargetTime,
     variancePercent  |-> args.variancePercent,
     adjustmentFactor |-> IF args.adjustmentFactor = 0
                          THEN 2 ELSE args.adjustmentFactor,
     useProportional  |-> IF args.useProportional = "undefined"
                          THEN TRUE ELSE args.useProportional = "true"]

\* The constructor's checks: positive numbers and minDiff < maxDiff.
VarDiffArgsValid(args) ==
    /\ args.minDiff > 0 /\ args.maxDiff > 0
    /\ args.targetShareTime > 0 /\ args.retargetTime > 0
    /\ args.variancePercent > 0
    /\ args.minDiff < args.maxDiff

\* checkAdjustment's "return null".
NullAdjustment == [shouldAdjust |-> FALSE, newDiff |-> 0, avgInterval |-> <<0, 1>>,
                   reason |-> "null"]

\* totalInterval: the sum of timestamps[i] - timestamps[i-1] for the 1-based
\* positions from+1 .. Len(ts).
RECURSIVE TotalInterval(_, _)
TotalInterval(ts, from) ==
    IF from >= Len(ts) THEN 0
    ELSE (ts[from + 1] - ts[from]) + TotalInterval(ts, from + 1)

\* Math.min(Math.max(targetTime / avgInterval, 0.25), 4) where
\* targetTime / avgInterval = num / den; den = 0 gives Infinity, den < 0 a
\* negative ratio.
ClampedRatio(num, den) ==
    IF den = 0 THEN RatioCeil
    ELSE IF den < 0 THEN RatioFloor
    ELSE IF num * RatioCeil[2] > RatioCeil[1] * den THEN RatioCeil
    ELSE IF num * RatioFloor[2] < RatioFloor[1] * den THEN RatioFloor
    ELSE Reduce(num, den)

\* Math.max(minDiff, Math.min(maxDiff, p/q)) as a fraction.
ClampDiff(v, p, q) ==
    LET whole == p \div q
        rem   == p % q
        upper == IF whole > v.maxDiff \/ (whole = v.maxDiff /\ rem > 0)
                 THEN <<v.maxDiff, 1>> ELSE <<p, q>>
    IN IF upper[1] \div upper[2] < v.minDiff THEN <<v.minDiff, 1>> ELSE upper

\* The retarget gate never closes (a mutant).
MutRetargetGateOpen(v, client, nowMs) == FALSE

\* "if (timeSinceLastUpdate < _._retargetTime * 1000) return null"
RetargetGateClosed(v, client, nowMs) ==
    nowMs - client.lastDifficultyUpdate < v.retargetTime * 1000

\* Two share timestamps are enough for an assessment (a mutant).
MutTooFewSharesTwo(client) == Len(client.shareTimestamps) < 2

\* "if (!client.shareTimestamps || client.shareTimestamps.length < 10)"
TooFewShares(client) == Len(client.shareTimestamps) < MinShares

\* Every change is taken for a meaningful one.
MutSmallChangeNever(newDiff, diff) == FALSE

\* "Math.abs(newDiff - client.diff) / client.diff < 0.01", that is
\* 100 * |newDiff - diff| < diff, without the product.
SmallChange(newDiff, diff) == Abs(newDiff - diff) < (diff + 99) \div 100

\* VarDiff.checkAdjustment(client), with Date.now() = nowMs.
CheckAdjustment(v, client, nowMs) ==
    IF ~v.enabled THEN NullAdjustment
    ELSE IF TooFewShares(client) THEN NullAdjustment
    ELSE IF RetargetGateClosed(v, client, nowMs) THEN NullAdjustment
    ELSE
    LET ts          == client.shareTimestamps
        startIdx    == MaxOf(0, Len(ts) - MinShares)
        recentCount == Len(ts) - startIdx
    IN IF recentCount < 2 THEN NullAdjustment
       ELSE
       LET totalInterval == TotalInterval(ts, startIdx + 1)
           \* avgInterval = totalInterval / avgDen seconds
           avgDen     == (recentCount - 1) * 1000
           targetTime == v.targetShareTime
           \* avgInterval < targetTime * (1 - variance)
           tooFast == totalInterval * 100
                        < targetTime * (100 - v.variancePercent) * avgDen
           \* avgInterval > targetTime * (1 + variance)
           tooSlow == totalInterval * 100
                        > targetTime * (100 + v.variancePercent) * avgDen
           ratio  == ClampedRatio(targetTime * avgDen, totalInterval)
           \* newDiff before the bounds, as a fraction of units
           raw == IF tooFast
                  THEN IF v.useProportional
                       THEN <<client.diff * ratio[1], ratio[2]>>
                       ELSE <<client.diff * v.adjustmentFactor, 1>>
                  ELSE IF tooSlow
                  THEN IF v.useProportional
                       THEN <<client.diff * ratio[1], ratio[2]>>
                       ELSE <<client.diff, v.adjustmentFactor>>
                  ELSE <<client.diff, 1>>
           reason == IF tooFast THEN "shares too fast"
                     ELSE IF tooSlow THEN "shares too slow" ELSE "null"
       IN IF raw[1] = client.diff * raw[2] THEN NullAdjustment
          ELSE
          LET bounded == ClampDiff(v, raw[1], raw[2])
              newDiff == RoundDifficulty(bounded[1], bounded[2])
          IN IF SmallChange(newDiff, client.diff)
             THEN NullAdjustment
             ELSE [shouldAdjust |-> TRUE, newDiff |-> newDiff,
                   avgInterval |-> <<totalInterval, avgDen>>,
                   reason |-> reason]

\* The largest k with (2k - 1) * step <= 2 * sqrt(n), from k upwards: the
\* number of steps in sqrt(n) rounded to a multiple of step, half up.
RECURSIVE SqrtSteps(_, _, _)
SqrtSteps(n, step, k) ==
    IF (2 * k + 1) * (2 * k + 1) * step * step <= 4 * n
    THEN SqrtSteps(n, step, k + 1) ELSE k

\* The whole part of sqrt(n).
RECURSIVE Isqrt(_, _)
Isqrt(n, r) == IF (r + 1) * (r + 1) <= n THEN Isqrt(n, r + 1) ELSE r

\* _roundDifficulty(Math.sqrt(n)) for n in squared units.
RoundSqrt(n) ==
    LET step == IF n \div DiffOne >= DiffOne
                THEN Pow(10, MaxOf(0, NumDigits(Isqrt(n, 0)) - SigDigits))
                ELSE FixedStep
    IN step * SqrtSteps(n, step, 0)

\* getInitialDiff() without an argument: portDiff is undefined.
NoPortDiff == -1

\* "if (portDiff !== undefined && portDiff !== null)"
PortDiffGiven(portDiff) == portDiff # NoPortDiff

\* VarDiff.getInitialDiff(portDiff): the port difficulty within the bounds,
\* or the rounded geometric mean of the bounds.
GetInitialDiff(v, portDiff) ==
    IF PortDiffGiven(portDiff)
    THEN MaxOf(v.minDiff, MinOf(v.maxDiff, portDiff))
    ELSE RoundSqrt(v.minDiff * v.maxDiff)

(***************************************************************************)
(* Job.registerShare (class.Job.js is not among the sources; the operation *)
(* is modelled from the repository's own description of it in              *)
(* IMPLEMENTATION_SUMMARY.md, "Duplicate Share Detection").                *)
(***************************************************************************)
MaxRegisters == 4

VARIABLES submitSet, registerLog

jobVars == <<submitSet, registerLog>>

JobIds == {"job1", "job2"}
\* A nonce is 64 bits, written as 16 hexadecimal digits.
NonceHex(hi, lo) == Hex32(hi) \o Hex32(lo)
Nonces == {NonceHex(0, 1), NonceHex(0, 2)}
ExtraNonces == {Hex32(1), Hex32(2)}

JobInit ==
    /\ submitSet = [j \in JobIds |-> {}]
    /\ registerLog = <<>>

\* Only the nonce identifies a submission (a mutant of the key).
MutSubmitIdNonceOnly(nonceHex, extraNonce1Hex) == nonceHex

\* const submitId = `${nonceHex}:${extraNonce1Hex}`
SubmitId(nonceHex, extraNonce1Hex) == nonceHex \o <<":">> \o extraNonce1Hex

\* job.registerShare(share): false when the key is in the job's set, else the
\* key is added and the result is true.
RegisterShare(j, nonceHex, extraNonce1Hex) ==
    /\ Len(registerLog) < MaxRegisters
    /\ LET submitId == SubmitId(nonceHex, extraNonce1Hex)
           isNew    == submitId \notin submitSet[j]
       IN /\ submitSet' = IF isNew
                          THEN [submitSet EXCEPT ![j] = @ \cup {submitId}]
                          ELSE submitSet
          /\ registerLog' = Append(registerLog,
                                   [job |-> j, nonceHex |-> nonceHex,
                                    extraNonce1Hex |-> extraNonce1Hex,
                                    result |-> isNew])

(***************************************************************************)
(* RpcClient (class.RpcClient.js)                                          *)
(*                                                                         *)
(* Strings whose text the code looks into are sequences of characters.     *)
(***************************************************************************)
MaxCmds == 1
\* Number of cmd() calls that may be under way at the same time.
MaxOverlap == 2

VARIABLES rpcClient, reqs

rpcVars == <<rpcClient, reqs>>

StrTimeout == <<"t", "i", "m", "e", "o", "u", "t">>
MsgRequestTimeout == 
    <<"R", "P", "C", " ", "r", "e", "q", "u", "e", "s", "t", " ", "t", "i",
    "m", "e", "o", "u", "t", " ", "a", "f", "t", "e", "r", " ", "3", "0",
    "0", "0", "0", "m", "s">>
MsgAuthFailed == 
    <<"R", "P", "C", " ", "a", "u", "t", "h", "e", "n", "t", "i", "c", "a",
    "t", "i", "o", "n", " ", "f", "a", "i", "l", "e", "d", " ", "-", " ",
    "i", "n", "v", "a", "l", "i", "d", " ", "u", "s", "e", "r", "n", "a",
    "m", "e", " ", "o", "r", " ", "p", "a", "s", "s", "w", "o", "r",
    "d">>
MsgForbidden == 
    <<"R", "P", "C", " ", "a", "c", "c", "e", "s", "s", " ", "f", "o", "r",
    "b", "i", "d", "d", "e", "n", " ", "-", " ", "I", "P", " ", "n", "o",
    "t", " ", "a", "l", "l", "o", "w", "e", "d">>
MsgServerError == 
    <<"R", "P", "C", " ", "s", "e", "r", "v", "e", "r", " ", "e", "r", "r",
    "o", "r", ":", " ", "H", "T", "T", "P", " ", "5", "0", "0">>
MsgRpcError == <<"R", "P", "C", " ", "e", "r", "r", "o", "r">>
MsgUnexpectedToken == 
    <<"U", "n", "e", "x", "p", "e", "c", "t", "e", "d", " ", "t", "o", "k",
    "e", "n">>
MsgConnRefused == 
    <<"c", "o", "n", "n", "e", "c", "t", " ", "E", "C", "O", "N", "N", "R",
    "E", "F", "U", "S", "E", "D">>
MsgProtocol == <<"w", "r", "i", "t", "e", " ", "E", "P", "R", "O", "T", "O">>
MsgMethodNotFound == 
    <<"M", "e", "t", "h", "o", "d", " ", "n", "o", "t", " ", "f", "o", "u",
    "n", "d">>
MsgLockTimeout == 
    <<"L", "o", "c", "k", " ", "w", "a", "i", "t", " ", "t", "i", "m", "e",
    "o", "u", "t">>
MsgHighHash == <<"h", "i", "g", "h", "-", "h", "a", "s", "h">>

\* String.prototype.includes
Includes(str, sub) ==
    \E i \in 0..(Len(str) - Len(sub)) : SubSeq(str, i + 1, i + Len(sub)) = sub

\* new RpcClient(args): "_retryAttempts = args.retryAttempts || 3"; an absent
\* number is 0.
RpcClientNew(args) ==
    [retryAttempts |-> IF args.retryAttempts = 0 THEN 3 ELSE args.retryAttempts,
     msgId |-> 0,
     isConnected |-> FALSE,
     consecutiveFailures |-> 0]

\* Stratum._createRpcClient: "retryAttempts: rpc.retryAttempts || 3".
CreateRpcClient(rpcConfig) ==
    RpcClientNew([retryAttempts |-> IF rpcConfig.retryAttempts = 0
                                    THEN 3 ELSE rpcConfig.retryAttempts])

NoError == [isNull |-> TRUE, code |-> "undefined", message |-> <<>>,
            isAuthError |-> FALSE, isRpcError |-> FALSE]
MkError(code, message, isAuthError, isRpcError) ==
    [isNull |-> FALSE, code |-> code, message |-> message,
     isAuthError |-> isAuthError, isRpcError |-> isRpcError]

\* A JSON value as the callers tell them apart: null, a string, or an object
\* with the names of its members.
ResultNull == [type |-> "null", text |-> <<>>, fields |-> {}]
ResultString(text) == [type |-> "string", text |-> text, fields |-> {}]
ResultObject(fields) == [type |-> "object", text |-> <<>>, fields |-> fields]

NoBody == [valid |-> FALSE, hasError |-> FALSE, errorCode |-> "undefined",
           errorMessage |-> <<>>, result |-> ResultNull]
ErrorBody(code, message) == [valid |-> TRUE, hasError |-> TRUE, errorCode |-> code,
                             errorMessage |-> message, result |-> ResultNull]
ResultBody(result) == [valid |-> TRUE, hasError |-> FALSE, errorCode |-> "undefined",
                       errorMessage |-> <<>>, result |-> result]
HttpResponse(statusCode, body) ==
    [kind |-> "http", code |-> "undefined", message |-> <<>>,
     statusCode |-> statusCode, body |-> body]
SocketError(code, message) ==
    [kind |-> "error", code |-> code, message |-> message,
     statusCode |-> 0, body |-> NoBody]
SocketTimeout ==
    [kind |-> "timeout", code |-> "undefined", message |-> <<>>,
     statusCode |-> 0, body |-> NoBody]

\* What the network and the daemon can answer to one HTTP request: the
\* request's 'error' and 'timeout' events, HTTP status codes, a body that is
\* not JSON, a JSON-RPC error member, and results of the three shapes the
\* callers tell apart (null, a string, an object).
RpcErrorResponses ==
    {HttpResponse(200, ErrorBody("-32601", MsgMethodNotFound)),
     HttpResponse(200, ErrorBody("-1", MsgLockTimeout)),
     HttpResponse(200, ErrorBody("-5", <<>>))}
ResultResponses ==
    {HttpResponse(200, ResultBody(ResultNull)),
     HttpResponse(200, ResultBody(ResultString(MsgHighHash))),
     HttpResponse(200, ResultBody(ResultObject({"hash", "tx", "txid"})))}
Responses ==
    {SocketError("ECONNREFUSED", MsgConnRefused),
     SocketError("EPROTO", MsgProtocol),
     SocketTimeout,
     HttpResponse(401, NoBody),
     HttpResponse(403, NoBody),
     HttpResponse(500, NoBody),
     HttpResponse(200, NoBody)}
    \cup RpcErrorResponses \cup ResultResponses

\* RpcClient._parseResponse: the <<err, result>> handed to the callback.
ParseResponse(res) ==
    IF res.statusCode = 401
    THEN <<MkError("undefined", MsgAuthFailed, TRUE, FALSE), ResultNull>>
    ELSE IF res.statusCode = 403
    THEN <<MkError("undefined", MsgForbidden, TRUE, FALSE), ResultNull>>
    ELSE IF res.statusCode >= 500
    THEN <<MkError("undefined", MsgServerError, FALSE, FALSE), ResultNull>>
    ELSE IF ~res.body.valid
    THEN <<MkError("undefined", MsgUnexpectedToken, FALSE, FALSE), ResultNull>>
    ELSE IF res.body.hasError
    THEN <<MkError(res.body.errorCode,
                   IF res.body.errorMessage = <<>> THEN MsgRpcError
                   ELSE res.body.errorMessage,
                   FALSE, TRUE), ResultNull>>
    ELSE <<NoError, res.body.result>>

\* RpcClient._sendRequest: the <<err, result>> of one request, by the event
\* that ends it.
SendRequest(response) ==
    IF response.kind = "error"
    THEN <<MkError(response.code, response.message, FALSE, FALSE), ResultNull>>
    ELSE IF response.kind = "timeout"
    THEN <<MkError("ETIMEDOUT", MsgRequestTimeout, FALSE, FALSE), ResultNull>>
    ELSE ParseResponse(response)

RetryableCodes == {"ECONNREFUSED", "ECONNRESET", "ETIMEDOUT", "ENOTFOUND",
                   "ENETUNREACH", "EHOSTUNREACH", "EPIPE", "EAI_AGAIN"}

\* A _shouldRetry that also retries the errors of HTTP 401 and 403.
MutShouldRetryAuthErrors(err) ==
    IF err.isNull THEN FALSE
    ELSE IF err.code # "undefined" /\ err.code \in RetryableCodes THEN TRUE
    ELSE IF err.message # <<>> /\ Includes(err.message, StrTimeout) THEN TRUE
    ELSE err.isAuthError

\* RpcClient._shouldRetry(err), in the order of the code's tests.
ShouldRetry(err) ==
    IF err.isNull THEN FALSE
    ELSE IF err.code # "undefined" /\ err.code \in RetryableCodes THEN TRUE
    ELSE IF err.message # <<>> /\ Includes(err.message, StrTimeout) THEN TRUE
    ELSE IF err.isAuthError \/ err.isRpcError THEN FALSE
    ELSE FALSE

\* A cmd() call and its retries: owner is 0 for a call made on the client
\* directly, or the share whose block the call is about.
NewRequest(method, owner) ==
    [method |-> method, owner |-> owner, st |-> "inflight",
     retryCount |-> 0, sends |-> 1, callbacks |-> 0, lateEvents |-> 0,
     err |-> NoError, result |-> ResultNull]

\* RpcClient.cmd up to _sendRequest: the next message id is taken and the
\* request is on the wire.
CmdClient(rc) == [rc EXCEPT !.msgId = @ + 1]

\* A failure is counted but the client still counts as connected.
MutFailureKeepsConnected(rc) == [rc EXCEPT !.consecutiveFailures = @ + 1]

\* cmd(): "_._consecutiveFailures++; _._isConnected = false;"
OnFailure(rc) == [rc EXCEPT !.consecutiveFailures = @ + 1,
                            !.isConnected = FALSE]

\* The callback cmd() gives to _sendRequest, for a request with this answer.
\* st "retryWait": the retry timer is set; st "done": args.callback was called.
CmdOnResponse(rc, req, response) ==
    LET out == SendRequest(response)
        err == out[1]
    IN IF ~err.isNull
       THEN LET rc1 == OnFailure(rc)
            IN IF ShouldRetry(err) /\ req.retryCount < rc.retryAttempts
               THEN [client |-> rc1,
                     req |-> [req EXCEPT !.st = "retryWait", !.err = err]]
               ELSE [client |-> rc1,
                     req |-> [req EXCEPT !.st = "done", !.err = err,
                                         !.result = ResultNull,
                                         !.callbacks = @ + 1]]
       ELSE [client |-> [rc EXCEPT !.consecutiveFailures = 0,
                                   !.isConnected = TRUE],
             req |-> [req EXCEPT !.st = "done", !.err = NoError,
                                 !.result = out[2], !.callbacks = @ + 1]]

RpcInit(rpcConfig) ==
    /\ rpcClient = CreateRpcClient(rpcConfig)
    /\ reqs = <<>>

\* The number of cmd() calls made on the client directly so far, and of
\* blocks sent to the daemon so far; retries are not counted.
DirectCalls == Cardinality({r \in 1..Len(reqs) : reqs[r].owner = 0})
BlocksSubmitted == Cardinality({r \in 1..Len(reqs) : reqs[r].method = "submitblock"})

DirectMethods == {"getblockchaininfo", "validateaddress"}

\* rpcClient.cmd({method, callback}) called on the client directly, at most
\* max times.
RpcCmdUpTo(method, max) ==
    /\ DirectCalls < max
    /\ reqs' = Append(reqs, NewRequest(method, 0))
    /\ rpcClient' = CmdClient(rpcClient)

RpcCmd(method) == RpcCmdUpTo(method, MaxCmds)

\* The retry timer set by cmd() fires: cmd() again with retryCount + 1.
RpcRetry(r) ==
    /\ reqs[r].st = "retryWait"
    /\ reqs' = [reqs EXCEPT ![r] = [@ EXCEPT !.st = "inflight",
                                             !.retryCount = @ + 1,
                                             !.sends = @ + 1]]
    /\ rpcClient' = CmdClient(rpcClient)

\* Number of further events the socket of an answered attempt delivers.
MaxLateEvents == 1

\* The attempts of a request whose handlers have called back.
AnsweredAttempts(req) == req.sends - (IF req.st = "inflight" THEN 1 ELSE 0)

\* Every event of an attempt reaches the callback cmd() gave.
MutSafeCallbackAlways(callbackCalled) == TRUE

\* _sendRequest: "if (callbackCalled) return; callbackCalled = true;"
SafeCallbackRuns(callbackCalled) == ~callbackCalled

\* A further event of an attempt that has called back already: the socket
\* error that follows req.destroy() in the 'timeout' handler, an 'error'
\* after the response has ended, or the catch of the 'end' handler when the
\* callback threw.  Its handler calls safeCallback again.
RpcLateEvent(r, response) ==
    /\ AnsweredAttempts(reqs[r]) > 0
    /\ reqs[r].lateEvents < MaxLateEvents
    /\ LET callbackCalled == TRUE
           res == IF SafeCallbackRuns(callbackCalled)
                  THEN CmdOnResponse(rpcClient, reqs[r], response)
                  ELSE [client |-> rpcClient, req |-> reqs[r]]
       IN /\ rpcClient' = res.client
          /\ reqs' = [reqs EXCEPT ![r] = [res.req EXCEPT !.lateEvents = @ + 1]]

(***************************************************************************)
(* Clocks, clients and Stratum.submitShare (class.Stratum.js)              *)
(*                                                                         *)
(* now is Date.now(); mono is the milliseconds that have really passed.    *)
(* process.hrtime.bigint() counts nanoseconds and no two reads return the  *)
(* same value: a reading is the pair <<mono, number of the read>>.         *)
(***************************************************************************)
MaxShares == 2
MaxBlocks == 1
MaxClockEvents == 2
\* Client.recordShare keeps the last this many timestamps.
RingCapacity == 100

VARIABLES varDiff, clients, now, mono, hrReads, clockEvents,
          shares, emitted, adjustments

clockVars == <<now, mono, hrReads, clockEvents>>
stratumVars == <<varDiff, clients, now, mono, hrReads, clockEvents,
                 shares, emitted, adjustments>>

Miners == {"m1", "m2"}

\* Date.now() when the first client connected.
Epoch == 1000 * 1000
\* Time from a client's connection to its first share, and from the last
\* share before the initial state to the initial state.
ConnectLead == 270 * 1000
InitGap == 5 * 1000
\* The time one Tick lets pass, and the size of one step of the wall clock.
TickMs == 90 * 1000
StepMs == 180 * 1000

\* "vardiffConfig.maxDiff || 1000000": the default maximum is beyond the
\* integers of the model (32 bits in units of 1e-7); the largest multiple of
\* 100 within them stands for it, and no difficulty of the model comes near.
DefaultMaxDiff == 200 * DiffOne

\* Stratum._createVarDiff: the operator's vardiff section, defaults filled in
\* (an absent number is 0, enabled is "undefined", "true" or "false").
\* adjustmentFactor and useProportional are not passed on.
CreateVarDiff(vardiffConfig) ==
    VarDiffNew([enabled          |-> vardiffConfig.enabled # "false",
                minDiff          |-> IF vardiffConfig.minDiff = 0
                                     THEN DiffOne \div 1000
                                     ELSE vardiffConfig.minDiff,
                maxDiff          |-> IF vardiffConfig.maxDiff = 0
                                     THEN DefaultMaxDiff
                                     ELSE vardiffConfig.maxDiff,
                targetShareTime  |-> IF vardiffConfig.targetShareTime = 0
                                     THEN 15 ELSE vardiffConfig.targetShareTime,
                retargetTime     |-> IF vardiffConfig.retargetTime = 0
                                     THEN 90 ELSE vardiffConfig.retargetTime,
                variancePercent  |-> IF vardiffConfig.variancePercent = 0
                                     THEN 30 ELSE vardiffConfig.variancePercent,
                adjustmentFactor |-> 0,
                useProportional  |-> "undefined"])

\* hrtime readings compared.
HrGreater(a, b) == a[1] > b[1] \/ (a[1] = b[1] /\ a[2] > b[2])

\* Client.recordShare() with Date.now() = nowMs and hrtime = tick: a sample
\* whose tick is not above the last one is dropped; the ring keeps the last
\* RingCapacity samples.
RecordShare(client, nowMs, tick) ==
    IF ~HrGreater(tick, client.lastMonotonicTime) THEN client
    ELSE LET ts == Append(client.shareTimestamps, nowMs)
         IN [client EXCEPT
               !.shareTimestamps = IF Len(ts) > RingCapacity
                                   THEN SubSeq(ts, Len(ts) - RingCapacity + 1, Len(ts))
                                   ELSE ts,
               !.lastMonotonicTime = tick]

\* A client that connected at connectedAt and has since had count valid
\* shares recorded, interval milliseconds apart, the first one ConnectLead
\* after the connection and no adjustment among them (fewer than MinShares).
ClientAfterShares(diff, connectedAt, count, interval) ==
    [diff |-> diff,
     shareTimestamps |-> [k \in 1..count |->
                             connectedAt + ConnectLead + (k - 1) * interval],
     lastDifficultyUpdate |-> connectedAt,
     lastMonotonicTime |-> <<IF count = 0 THEN 0
                             ELSE ConnectLead + (count - 1) * interval, count>>]

\* The methods class.Server.js defines.
ServerMethods == {"start", "stop", "sendMiningJob", "forEachClient",
                  "_handleServerError", "_onClientConnect", "_reEmit"}
\* Calling a method the object does not have throws a TypeError.
CallThrows(methods, name) == name \notin methods

\* Reading a member of a JSON value: of null it throws; a string has no such
\* member; an object has it when the daemon sent it.
MemberThrows(value) == value.type = "null"
Member(value, name) ==
    IF value.type = "object" /\ name \in value.fields THEN name ELSE "undefined"

\* JavaScript truthiness of a JSON value.
Truthy(value) ==
    value.type = "object" \/ (value.type = "string" /\ value.text # <<>>)

NewShare(m, isValidShare, isValidBlock, st) ==
    [client |-> m, isValidShare |-> isValidShare, isValidBlock |-> isValidBlock,
     blockTxId |-> "undefined", st |-> st,
     submitOutcome |-> "none", checkOutcome |-> "none", adjusted |-> FALSE]

\* Stratum._emitShare(share): the shareSubmitted event, with the share as it
\* is when the event is emitted.
EmitShare(log, s, share) ==
    Append(log, [share |-> s, client |-> share.client,
                 isValidShare |-> share.isValidShare,
                 isValidBlock |-> share.isValidBlock,
                 blockTxId |-> share.blockTxId])

StratumInit(vardiffConfig, portDiff, interval) ==
    /\ varDiff = CreateVarDiff(vardiffConfig)
    /\ VarDiffArgsValid(varDiff)
    /\ clients = [m \in Miners |->
                    IF m = "m1"
                    THEN ClientAfterShares(GetInitialDiff(varDiff, portDiff),
                                           Epoch, MinShares - 1, interval)
                    ELSE ClientAfterShares(GetInitialDiff(varDiff, portDiff),
                                           Epoch, 0, interval)]
    /\ now = Epoch + ConnectLead + (MinShares - 2) * interval + InitGap
    /\ mono = ConnectLead + (MinShares - 2) * interval + InitGap
    /\ hrReads = MinShares - 1
    /\ clockEvents = 0
    /\ shares = <<>>
    /\ emitted = <<>>
    /\ adjustments = <<>>

\* Time passes: both clocks advance.
Tick ==
    /\ clockEvents < MaxClockEvents
    /\ now' = now + TickMs
    /\ mono' = mono + TickMs
    /\ clockEvents' = clockEvents + 1
    /\ UNCHANGED <<varDiff, clients, hrReads, shares, emitted, adjustments>>

\* The wall clock is set forward or back (NTP, an operator); no time passes.
ClockStep(d) ==
    /\ clockEvents < MaxClockEvents
    /\ now' = now + d
    /\ clockEvents' = clockEvents + 1
    /\ UNCHANGED <<varDiff, clients, mono, hrReads, shares, emitted, adjustments>>

\* Stratum.submitShare(client, share).
SubmitShare(m, isValidShare, isValidBlock) ==
    /\ Len(shares) < MaxShares
    /\ isValidBlock => BlocksSubmitted < MaxBlocks
    /\ LET client   == clients[m]
           recorded == IF isValidShare
                       THEN RecordShare(client, now, <<mono, hrReads + 1>>)
                       ELSE client
           adjustment == IF isValidShare
                         THEN CheckAdjustment(varDiff, recorded, now)
                         ELSE NullAdjustment
           after    == IF adjustment.shouldAdjust
                       THEN [recorded EXCEPT !.diff = adjustment.newDiff,
                                             !.lastDifficultyUpdate = now]
                       ELSE recorded
           \* _._server.sendDifficultyUpdate(client)
           threw    == adjustment.shouldAdjust
                       /\ CallThrows(ServerMethods, "sendDifficultyUpdate")
           s        == Len(shares) + 1
           share    == [NewShare(m, isValidShare, isValidBlock, "done")
                          EXCEPT !.adjusted = adjustment.shouldAdjust]
       IN /\ clients' = [clients EXCEPT ![m] = after]
          /\ hrReads' = IF isValidShare THEN hrReads + 1 ELSE hrReads
          /\ adjustments' =
                IF adjustment.shouldAdjust
                THEN Append(adjustments,
                            [client |-> m, oldDiff |-> client.diff,
                             newDiff |-> adjustment.newDiff,
                             reason |-> adjustment.reason,
                             wall |-> now, mono |-> mono,
                             lastUpdate |-> client.lastDifficultyUpdate])
                ELSE adjustments
          /\ IF threw
             THEN /\ shares' = Append(shares, [share EXCEPT !.st = "threw"])
                  /\ UNCHANGED <<emitted, rpcVars>>
             ELSE IF isValidBlock
             THEN \* _submitBlock: cmd submitblock
                  /\ shares' = Append(shares, [share EXCEPT !.st = "submitblock"])
                  /\ reqs' = Append(reqs, NewRequest("submitblock", s))
                  /\ rpcClient' = CmdClient(rpcClient)
                  /\ UNCHANGED emitted
             ELSE /\ shares' = Append(shares, share)
                  /\ emitted' = EmitShare(emitted, s, share)
                  /\ UNCHANGED rpcVars
    /\ UNCHANGED <<varDiff, now, mono, clockEvents>>

\* Whatever the daemon answers, the block counts as accepted.
MutSubmitAlwaysAccepted(err, result) == "accepted"

\* _submitBlock: err, or a truthy result, is an error for the caller.
SubmitOutcome(err, result) ==
    IF ~err.isNull THEN "failed"
    ELSE IF Truthy(result) THEN "rejected" ELSE "accepted"

\* The callback submitShare gives to _submitBlock, reached through the
\* callback _submitBlock gives to cmd().
OnSubmitBlock(s, err, result) ==
    LET share == shares[s]
        outcome == SubmitOutcome(err, result)
    IN IF outcome # "accepted"
       THEN LET done == [share EXCEPT !.st = "done", !.submitOutcome = outcome]
            IN /\ shares' = [shares EXCEPT ![s] = done]
               /\ emitted' = EmitShare(emitted, s, done)
       ELSE /\ shares' = [shares EXCEPT ![s] = [share EXCEPT !.st = "updateJob",
                                                             !.submitOutcome = outcome]]
            /\ UNCHANGED emitted

\* The callback submitShare gives to _checkBlockAccepted.
OnCheckBlockAccepted(s, err, block) ==
    LET share == shares[s]
    IN IF ~err.isNull
       THEN LET done == [share EXCEPT !.st = "done", !.isValidBlock = FALSE,
                                      !.checkOutcome = "failed"]
            IN /\ shares' = [shares EXCEPT ![s] = done]
               /\ emitted' = EmitShare(emitted, s, done)
       ELSE IF MemberThrows(block)
       THEN \* result.block.txId of a null block
            /\ shares' = [shares EXCEPT ![s] = [share EXCEPT !.st = "threw",
                                                             !.checkOutcome = "ok"]]
            /\ UNCHANGED emitted
       ELSE LET done == [share EXCEPT !.st = "done", !.checkOutcome = "ok",
                                      !.blockTxId = Member(block, "txId")]
            IN /\ shares' = [shares EXCEPT ![s] = done]
               /\ emitted' = EmitShare(emitted, s, done)

\* JobManager.updateJob(callback) calls back (class.JobManager.js is not
\* among the sources): _checkBlockAccepted sends getblock.
UpdateJobDone(s) ==
    /\ shares[s].st = "updateJob"
    /\ shares' = [shares EXCEPT ![s] = [@ EXCEPT !.st = "getblock"]]
    /\ reqs' = Append(reqs, NewRequest("getblock", s))
    /\ rpcClient' = CmdClient(rpcClient)
    /\ UNCHANGED <<varDiff, clients, clockVars, emitted, adjustments>>

(***************************************************************************)
(* Stratum.init and Stratum.destroy (class.Stratum.js)                     *)
(*                                                                         *)
(* class.JobManager.js is not among the sources: of the job manager the    *)
(* model keeps what the documents say of it, that init(callback) calls     *)
(* back once, with an error when no block template could be obtained.      *)
(***************************************************************************)
\* Number of Stratum.destroy() calls the environment makes.
MaxDestroyCalls == 1

DEFAULT_STARTUP_RETRY_ATTEMPTS == 5

VARIABLES
    config,           \* Stratum._config
    isInit,           \* Stratum._isInit
    isDestroyed,      \* Stratum._isDestroyed
    created,          \* init() has created _server, _jobManager, _rpcClient
    initState,        \* where init() is
    initAttempt,      \* the attempt argument of the _initWithRetry pending
    initCallbacks,    \* the errors init()'s callback was called with
    rpcConnected,     \* the EVENT_RPC_CONNECTED events emitted
    jobManager,       \* the JobManager
    destroyCalls,     \* the destroy() calls made
    destroyCallbacks  \* the destroy() callbacks run but for those of stop()

initVars == <<config, isInit, isDestroyed, created, initState, initAttempt,
              initCallbacks, rpcConnected, jobManager, destroyCalls,
              destroyCallbacks>>

\* The owner of the requests testConnection makes for init().
InitOwner == -1

MsgDestroyed ==
    <<"C", "a", "n", "n", "o", "t", " ", "i", "n", "i", "t", "i", "a", "l",
      "i", "z", "e", " ", "d", "e", "s", "t", "r", "o", "y", "e", "d", " ",
      "s", "t", "r", "a", "t", "u", "m", " ", "i", "n", "s", "t", "a", "n",
      "c", "e">>
MsgNoTemplate ==
    <<"n", "o", " ", "b", "l", "o", "c", "k", " ", "t", "e", "m", "p", "l",
      "a", "t", "e">>

\* new Stratum(config)
StratumNew(cfg) ==
    /\ config = cfg
    /\ isInit = FALSE
    /\ isDestroyed = FALSE
    /\ created = FALSE
    /\ initState = "new"
    /\ initAttempt = 0
    /\ initCallbacks = <<>>
    /\ rpcConnected = 0
    /\ jobManager = [st |-> "null", hasTemplate |-> FALSE,
                     nextJobListener |-> FALSE]
    /\ destroyCalls = 0
    /\ destroyCallbacks = 0

\* "_._config.startupRetryAttempts || DEFAULT_STARTUP_RETRY_ATTEMPTS"
MaxAttempts(cfg) ==
    IF cfg.startupRetryAttempts = 0
    THEN DEFAULT_STARTUP_RETRY_ATTEMPTS ELSE cfg.startupRetryAttempts

\* A test of the retry condition that allows one attempt more.
MutMayRetryInit(attempt, maxAttempts, destroyed) ==
    attempt <= maxAttempts /\ ~destroyed

\* "if (attempt < maxAttempts && !_._isDestroyed)"
MayRetryInit(attempt, maxAttempts, destroyed) ==
    attempt < maxAttempts /\ ~destroyed

\* The server is started whatever the job manager reported.
MutStartAfterJobInit(jobErrIsNull) == TRUE

\* "if (jobErr) { callback(jobErr); return; }" before _server.start
StartAfterJobInit(jobErrIsNull) == jobErrIsNull

\* _initWithRetry up to testConnection: getblockchaininfo is sent.
InitWithRetry(attempt) ==
    /\ initAttempt' = attempt
    /\ initState' = "testing"
    /\ reqs' = Append(reqs, NewRequest("getblockchaininfo", InitOwner))
    /\ rpcClient' = CmdClient(rpcClient)

\* Stratum.init(callback), called once as start.js does.
StratumInitCall ==
    /\ initState = "new"
    /\ IF isInit
       THEN /\ initCallbacks' = Append(initCallbacks, NoError)
            /\ initState' = "returned"
            /\ UNCHANGED <<created, initAttempt, rpcVars>>
       ELSE IF isDestroyed
       THEN /\ initCallbacks' =
                   Append(initCallbacks,
                          MkError("undefined", MsgDestroyed, FALSE, FALSE))
            /\ initState' = "returned"
            /\ UNCHANGED <<created, initAttempt, rpcVars>>
       ELSE /\ created' = TRUE
            /\ InitWithRetry(1)
            /\ UNCHANGED initCallbacks
    /\ UNCHANGED <<config, isInit, isDestroyed, rpcConnected, jobManager,
                   destroyCalls, destroyCallbacks>>

\* The callback _initWithRetry gives to testConnection.
OnTestConnection(err, info) ==
    /\ IF ~err.isNull
       THEN /\ IF MayRetryInit(initAttempt, MaxAttempts(config), isDestroyed)
               THEN /\ initState' = "retryWait"
                    /\ UNCHANGED initCallbacks
               ELSE /\ initCallbacks' = Append(initCallbacks, err)
                    /\ initState' = "returned"
            /\ UNCHANGED <<rpcConnected, jobManager>>
       ELSE /\ rpcConnected' = rpcConnected + 1
            /\ jobManager' = [jobManager EXCEPT !.st = "initializing"]
            /\ initState' = "jobInit"
            /\ UNCHANGED initCallbacks
    /\ UNCHANGED <<config, isInit, isDestroyed, created, initAttempt,
                   destroyCalls, destroyCallbacks>>

\* The startupRetryDelay timer set by _initWithRetry fires.
InitRetryTimer ==
    /\ initState = "retryWait"
    /\ InitWithRetry(initAttempt + 1)
    /\ UNCHANGED <<config, isInit, isDestroyed, created, initCallbacks,
                   rpcConnected, jobManager, destroyCalls, destroyCallbacks>>

\* The callback _initWithRetry gives to _jobManager.init: on success
\* _server.start is called.
OnJobManagerInit(jobErr) ==
    /\ initState = "jobInit"
    /\ IF StartAfterJobInit(jobErr.isNull)
       THEN /\ initState' = "starting"
            /\ jobManager' = [jobManager EXCEPT
                                 !.st = IF @ = "destroyed" THEN @ ELSE "ready",
                                 !.hasTemplate = jobErr.isNull]
            /\ Start
            /\ UNCHANGED initCallbacks
       ELSE /\ initCallbacks' = Append(initCallbacks, jobErr)
            /\ initState' = "returned"
            /\ UNCHANGED <<jobManager, serverVars>>
    /\ UNCHANGED <<config, isInit, isDestroyed, created, initAttempt,
                   rpcConnected, destroyCalls, destroyCallbacks>>

\* The callback _initWithRetry gives to _server.start, called with the
\* error of this code (NoErrorCode for null).
OnServerStart(code) ==
    /\ initState = "starting"
    /\ IF code # NoErrorCode
       THEN /\ initCallbacks' =
                   Append(initCallbacks, MkError(code, <<>>, FALSE, FALSE))
            /\ UNCHANGED <<isInit, jobManager>>
       ELSE /\ jobManager' = [jobManager EXCEPT !.nextJobListener = TRUE]
            /\ isInit' = TRUE
            /\ initCallbacks' = Append(initCallbacks, NoError)
    /\ initState' = "returned"
    /\ UNCHANGED <<config, isDestroyed, created, initAttempt, rpcConnected,
                   destroyCalls, destroyCallbacks>>

\* The listener of a Stratum's server is bound: Server's listen callback
\* and with it the callback init() gave to start().
StratumOnListening ==
    /\ OnListening
    /\ IF initState = "starting"
       THEN OnServerStart(NoErrorCode) ELSE UNCHANGED initVars

\* An 'error' event of the listener of a Stratum's server.
StratumOnServerError(code) ==
    /\ OnServerError(code)
    /\ IF startCallbacks' # startCallbacks /\ initState = "starting"
       THEN OnServerStart(code) ELSE UNCHANGED initVars

\* Stratum.destroy(callback)
Destroy ==
    /\ destroyCalls < MaxDestroyCalls
    /\ destroyCalls' = destroyCalls + 1
    /\ IF isDestroyed
       THEN /\ destroyCallbacks' = destroyCallbacks + 1
            /\ UNCHANGED <<isDestroyed, jobManager, serverVars>>
       ELSE /\ isDestroyed' = TRUE
            /\ IF created
               THEN /\ jobManager' = [jobManager EXCEPT !.st = "destroyed"]
                    /\ StopFrom(Append(teardown,
                                        TeardownCall("jobManager.destroy", {})))
                    /\ UNCHANGED destroyCallbacks
               ELSE /\ destroyCallbacks' = destroyCallbacks + 1
                    /\ UNCHANGED <<jobManager, serverVars>>
    /\ UNCHANGED <<config, isInit, created, initState, initAttempt,
                   initCallbacks, rpcConnected>>

(***************************************************************************)
(* Job broadcast: Stratum._onNextJob and Server.sendMiningJob              *)
(*                                                                         *)
(* class.Client.js is not among the sources: of Client.setJob(args) the    *)
(* model keeps the arguments of the last call that returned, per client;   *)
(* a call may throw instead.                                               *)
(***************************************************************************)
\* Number of nextJob events the job manager emits, and of the connections
\* miners open while jobs are broadcast.
MaxJobs == 1
MaxMiners == 2

VARIABLES
    nextJobs,       \* the nextJob events the job manager has emitted
    lastBroadcast,  \* the last of them, and the clients whose setJob threw
    clientJob       \* per connection: the arguments of its last setJob

broadcastVars == <<nextJobs, lastBroadcast, clientJob>>

NoJob == [job |-> 0, isNewBlock |-> FALSE]

BroadcastInit ==
    /\ nextJobs = 0
    /\ lastBroadcast = [job |-> 0, isNewBlock |-> FALSE, failed |-> {}]
    /\ clientJob = [c \in Conns |-> NoJob]

\* The number a hexadecimal text stands for.
RECURSIVE HexValue(_)
HexValue(hex) ==
    IF hex = <<>> THEN 0
    ELSE HexValue(SubSeq(hex, 1, Len(hex) - 1)) * 16
         + (CHOOSE d \in 0..15 : HexDigits[d + 1] = hex[Len(hex)])

\* _clientMap.values(): the clients in the order of their insertion, which
\* is the order of their extraNonce1Hex.
RECURSIVE MapValues(_, _)
MapValues(m, keys) ==
    IF keys = {} THEN <<>>
    ELSE LET k == CHOOSE k \in keys :
                     \A j \in keys : HexValue(k) <= HexValue(j)
         IN <<m[k]>> \o MapValues(m, keys \ {k})

\* Every client in the map is sent the job.
MutSendsToAll(client) == TRUE

\* "if (client.isAuthorized)" in sendMiningJob.
SendsTo(client) == client.isAuthorized

\* A sendMiningJob without the try/catch around setJob.
MutSetJobErrorEscapes == FALSE

\* "try { client.setJob(args); } catch (err) { errorCount++; }"
SetJobErrorCaught == TRUE

\* Client.setJob({job, isNewBlock}) of a client whose send succeeds.
SetJob(job, isNewBlock) == [job |-> job, isNewBlock |-> isNewBlock]

\* The loop of sendMiningJob over order from position i on; failed are the
\* clients whose setJob throws, jobs is clientJob so far.
RECURSIVE SendLoop(_, _, _, _, _, _)
SendLoop(order, i, job, isNewBlock, failed, jobs) ==
    IF i > Len(order) THEN jobs
    ELSE LET c == order[i]
         IN IF ~SendsTo(conns[c])
            THEN SendLoop(order, i + 1, job, isNewBlock, failed, jobs)
            ELSE IF c \in failed
            THEN IF SetJobErrorCaught
                 THEN SendLoop(order, i + 1, job, isNewBlock, failed, jobs)
                 ELSE jobs
            ELSE SendLoop(order, i + 1, job, isNewBlock, failed,
                          [jobs EXCEPT ![c] = SetJob(job, isNewBlock)])

\* Server.sendMiningJob({job, isNewBlock}): clientJob afterwards.
SendMiningJob(job, isNewBlock, failed) ==
    SendLoop(MapValues(clientMap, DOMAIN clientMap), 1, job, isNewBlock,
             failed, clientJob)

\* The clients sendMiningJob calls setJob of.
Recipients ==
    {clientMap[k] : k \in {h \in DOMAIN clientMap : conns[clientMap[h]].isAuthorized}}

\* The job manager emits nextJob{job, isNewBlock}: Stratum._onNextJob when
\* init() has registered it; setJob throws for the clients in failed.
OnNextJob(isNewBlock, failed) ==
    /\ nextJobs < MaxJobs
    /\ jobManager.st = "ready"
    /\ failed \subseteq Recipients
    /\ nextJobs' = nextJobs + 1
    /\ lastBroadcast' = [job |-> nextJobs + 1, isNewBlock |-> isNewBlock,
                         failed |-> failed]
    /\ clientJob' = IF jobManager.nextJobListener
                    THEN SendMiningJob(nextJobs + 1, isNewBlock, failed)
                    ELSE clientJob

\* One HTTP request ends: the callback cmd() gave to _sendRequest runs, and
\* with it, when cmd() does not retry, the caller's callback.
RpcRespond(r, response) ==
    /\ reqs[r].st = "inflight"
    /\ LET res == CmdOnResponse(rpcClient, reqs[r], response)
           req == res.req
       IN /\ rpcClient' = res.client
          /\ reqs' = [reqs EXCEPT ![r] = req]
          /\ IF req.st = "done" /\ req.method = "submitblock"
             THEN OnSubmitBlock(req.owner, req.err, req.result)
             ELSE IF req.st = "done" /\ req.method = "getblock"
             THEN OnCheckBlockAccepted(req.owner, req.err, req.result)
             ELSE UNCHANGED <<shares, emitted>>
          /\ IF req.st = "done" /\ req.owner = InitOwner
             THEN OnTestConnection(req.err, req.result)
             ELSE UNCHANGED initVars
    /\ UNCHANGED <<varDiff, clients, clockVars, adjustments>>

\* The shares submitShare is given: invalid, valid, and valid block.
ShareKinds == {<<FALSE, FALSE>>, <<TRUE, FALSE>>, <<TRUE, TRUE>>}

\* The answers the block submission is followed through.
ShareResponses ==
    {SocketError("ECONNREFUSED", MsgConnRefused),
     HttpResponse(200, ErrorBody("-32601", MsgMethodNotFound)),
     HttpResponse(200, ErrorBody("-1", MsgLockTimeout))}
    \cup ResultResponses

(***************************************************************************)
(* RpcClient._tryParseJson and the body of an HTTP 200 answer              *)
(*                                                                         *)
(* The body is text, a sequence of characters.  JsonParse is JSON.parse    *)
(* for text without white space made of objects, strings without escapes,  *)
(* integers and null, which is all the bodies below contain.               *)
(***************************************************************************)
\* The most members the result object of a body has.
MaxMembers == 3

VARIABLES
    jsonMembers,   \* the member values of the result object in the body
    jsonBody,      \* the body of the HTTP 200 answer
    jsonOut        \* what the callback of _sendRequest was called with

jsonVars == <<jsonMembers, jsonBody, jsonOut>>

Quote == "\""
Digits == <<"0", "1", "2", "3", "4", "5", "6", "7", "8", "9">>
IsDigit(ch) == \E d \in 1..10 : Digits[d] = ch
DigitValue(ch) == (CHOOSE d \in 1..10 : Digits[d] = ch) - 1

StrNull == <<"n", "u", "l", "l">>
StrNan == <<"n", "a", "n">>
StrMinusNan == <<"-", "n", "a", "n">>
StrColonNan == <<":", "n", "a", "n">>
StrColonMinusNan == <<":", "-", "n", "a", "n">>
StrColonNanComma == <<":", "n", "a", "n", ",">>
StrColonMinusNanComma == <<":", "-", "n", "a", "n", ",">>
StrColonZero == <<":", "0">>
StrResult == <<"r", "e", "s", "u", "l", "t">>
StrError == <<"e", "r", "r", "o", "r">>

\* JSON values: null, a number, a string, an object (its members in order).
JsonNull == [t |-> "null", n |-> 0, str |-> <<>>, members |-> <<>>]
JsonNumber(n) == [t |-> "number", n |-> n, str |-> <<>>, members |-> <<>>]
JsonString(str) == [t |-> "string", n |-> 0, str |-> str, members |-> <<>>]
JsonObject(members) == [t |-> "object", n |-> 0, str |-> <<>>, members |-> members]
JsonUndefined == [t |-> "undefined", n |-> 0, str |-> <<>>, members |-> <<>>]

\* s[i..j]
Slice(s, i, j) == [k \in 1..(j - i + 1) |-> s[i + k - 1]]

\* Whether text s has sub at position i.
HasAt(s, sub, i) ==
    /\ i + Len(sub) - 1 <= Len(s)
    /\ \A k \in 1..Len(sub) : s[i + k - 1] = sub[k]

ParseFail == [ok |-> FALSE, v |-> JsonUndefined, next |-> 0]

\* The position after the digits that start at i.
RECURSIVE DigitsEnd(_, _)
DigitsEnd(s, i) ==
    IF i <= Len(s) /\ IsDigit(s[i]) THEN DigitsEnd(s, i + 1) ELSE i

RECURSIVE DigitsValue(_, _, _)
DigitsValue(s, i, j) ==
    IF i >= j THEN 0
    ELSE DigitsValue(s, i, j - 1) * 10 + DigitValue(s[j - 1])

\* A JSON number at i: an optional minus sign and digits, without a
\* leading zero.
ParseNumber(s, i) ==
    LET neg == i <= Len(s) /\ s[i] = "-"
        from == IF neg THEN i + 1 ELSE i
        to == DigitsEnd(s, from)
    IN IF to = from THEN ParseFail
       ELSE IF s[from] = "0" /\ to > from + 1 THEN ParseFail
       ELSE [ok |-> TRUE,
             v |-> JsonNumber(IF neg THEN 0 - DigitsValue(s, from, to)
                              ELSE DigitsValue(s, from, to)),
             next |-> to]

\* The position of the quote that ends the string whose text starts at i,
\* 0 when there is none.
RECURSIVE StringEnd(_, _)
StringEnd(s, i) ==
    IF i > Len(s) THEN 0
    ELSE IF s[i] = Quote THEN i
    ELSE StringEnd(s, i + 1)

ParseString(s, i) ==
    IF ~(i <= Len(s) /\ s[i] = Quote) THEN ParseFail
    ELSE LET e == StringEnd(s, i + 1)
         IN IF e = 0 THEN ParseFail
            ELSE [ok |-> TRUE, v |-> JsonString(Slice(s, i + 1, e - 1)),
                  next |-> e + 1]

RECURSIVE ParseValue(_, _)
RECURSIVE ParseMembers(_, _, _)

\* The members of an object from position i on, after those in acc.
ParseMembers(s, i, acc) ==
    LET key == ParseString(s, i)
    IN IF ~key.ok THEN ParseFail
       ELSE IF ~(key.next <= Len(s) /\ s[key.next] = ":") THEN ParseFail
       ELSE LET val == ParseValue(s, key.next + 1)
            IN IF ~val.ok THEN ParseFail
               ELSE LET all == Append(acc, [key |-> key.v.str, value |-> val.v])
                    IN IF val.next > Len(s) THEN ParseFail
                       ELSE IF s[val.next] = ","
                       THEN ParseMembers(s, val.next + 1, all)
                       ELSE IF s[val.next] = "}"
                       THEN [ok |-> TRUE, v |-> JsonObject(all),
                             next |-> val.next + 1]
                       ELSE ParseFail

ParseValue(s, i) ==
    IF i > Len(s) THEN ParseFail
    ELSE IF s[i] = "{"
    THEN IF i + 1 <= Len(s) /\ s[i + 1] = "}"
         THEN [ok |-> TRUE, v |-> JsonObject(<<>>), next |-> i + 2]
         ELSE ParseMembers(s, i + 1, <<>>)
    ELSE IF s[i] = Quote THEN ParseString(s, i)
    ELSE IF HasAt(s, StrNull, i)
    THEN [ok |-> TRUE, v |-> JsonNull, next |-> i + Len(StrNull)]
    ELSE ParseNumber(s, i)

\* JSON.parse(json): ok is false where it throws a SyntaxError.
JsonParse(json) ==
    LET p == ParseValue(json, 1)
    IN IF p.ok /\ p.next = Len(json) + 1 THEN p ELSE ParseFail

\* json.replace(/pat/g, rep) for a pattern that is plain text.
RECURSIVE ReplaceAll(_, _, _)
ReplaceAll(s, pat, rep) ==
    IF Len(s) < Len(pat) THEN s
    ELSE IF HasAt(s, pat, 1)
    THEN rep \o ReplaceAll(Slice(s, Len(pat) + 1, Len(s)), pat, rep)
    ELSE <<s[1]>> \o ReplaceAll(Tail(s), pat, rep)

\* RpcClient._tryParseJson(json): error is "null", "SyntaxError" (the error
\* of JSON.parse), or "RangeError": a call that calls itself with the text
\* it was given never returns, and the stack overflow it ends in is thrown
\* to _sendRequest's 'end' handler, which hands it to the callback.
RECURSIVE TryParseJson(_)
TryParseJson(json) ==
    LET p == JsonParse(json)
    IN IF p.ok THEN [error |-> "null", parsed |-> p.v]
       ELSE IF json # <<>> /\ Includes(json, StrColonMinusNan)
       THEN LET fixedJson == ReplaceAll(json, StrColonMinusNanComma, StrColonZero)
            IN IF fixedJson = json
               THEN [error |-> "RangeError", parsed |-> JsonUndefined]
               ELSE TryParseJson(fixedJson)
       ELSE IF json # <<>> /\ Includes(json, StrColonNan)
       THEN LET fixedJson == ReplaceAll(json, StrColonNanComma, StrColonZero)
            IN IF fixedJson = json
               THEN [error |-> "RangeError", parsed |-> JsonUndefined]
               ELSE TryParseJson(fixedJson)
       ELSE [error |-> "SyntaxError", parsed |-> JsonUndefined]

\* parsed[name] of a parsed object; undefined when there is no such member.
RECURSIVE JsonMemberFrom(_, _, _)
JsonMemberFrom(members, name, i) ==
    IF i = 0 THEN JsonUndefined
    ELSE IF members[i].key = name THEN members[i].value
    ELSE JsonMemberFrom(members, name, i - 1)
JsonMember(v, name) == JsonMemberFrom(v.members, name, Len(v.members))

JsonTruthy(v) ==
    /\ v.t \notin {"undefined", "null"}
    /\ ~(v.t = "number" /\ v.n = 0)
    /\ ~(v.t = "string" /\ v.str = <<>>)

\* _parseResponse for an answer with HTTP status 200 and this body, as
\* called by _sendRequest: what the callback is called with.
ParseBody(json) ==
    LET parsedJson == TryParseJson(json)
    IN IF parsedJson.error # "null"
       THEN [called |-> TRUE, err |-> parsedJson.error, result |-> JsonNull]
       ELSE IF parsedJson.parsed.t = "null"
       THEN [called |-> TRUE, err |-> "TypeError", result |-> JsonNull]
       ELSE IF JsonTruthy(JsonMember(parsedJson.parsed, StrError))
       THEN [called |-> TRUE, err |-> "RpcError", result |-> JsonNull]
       ELSE [called |-> TRUE, err |-> "null",
             result |-> JsonMember(parsedJson.parsed, StrResult)]

\* The text of a body whose result is an object with these member values,
\* named a, b, c, ... in order.
MemberNames == <<"a", "b", "c", "d">>
RECURSIVE MembersText(_, _)
MembersText(values, i) ==
    IF i > Len(values) THEN <<>>
    ELSE (IF i > 1 THEN <<",">> ELSE <<>>)
         \o <<Quote, MemberNames[i], Quote, ":">> \o values[i]
         \o MembersText(values, i + 1)
BodyText(values) ==
    <<"{", "\"", "r", "e", "s", "u", "l", "t", "\"", ":">> \o
    <<"{">> \o MembersText(values, 1) \o <<"}">> \o
    <<",", "\"", "e", "r", "r", "o", "r", "\"", ":", "n", "u", "l", "l", ",", "\"", "i", "d", "\"", ":", "0", "}">>

\* The values a member of the result has in a body.
MemberValues == {<<"1">>, <<"7">>, StrNan, StrMinusNan}
JsonBodies == UNION {[1..n -> MemberValues] : n \in 0..MaxMembers}

JsonInit(values) ==
    /\ jsonMembers = values
    /\ jsonBody = BodyText(values)
    /\ jsonOut = [called |-> FALSE, err |-> "null", result |-> JsonNull]

\* The answer with the body arrives: _sendRequest's 'end' handler.
OnResponseEnd ==
    /\ ~jsonOut.called
    /\ jsonOut' = ParseBody(jsonBody)
    /\ UNCHANGED <<jsonMembers, jsonBody>>

(***************************************************************************)
(* VarDiff called by itself: checkAdjustment and getInitialDiff            *)
(***************************************************************************)
\* The largest product of the two bounds the geometric mean is formed of.
MaxMeanProduct == 100000

VARIABLES
    checkResult,  \* the last checkAdjustment call: its client and its result
    initialDiff   \* the last getInitialDiff call: its argument and its result

callVars == <<checkResult, initialDiff>>

CallInit ==
    /\ checkResult = [called |-> FALSE, miner |-> "none",
                      client |-> [diff |-> 0, shareTimestamps |-> <<>>,
                                  lastDifficultyUpdate |-> 0,
                                  lastMonotonicTime |-> <<0, 0>>],
                      now |-> 0, result |-> NullAdjustment]
    /\ initialDiff = [called |-> FALSE, portDiff |-> NoPortDiff, result |-> 0]

\* checkAdjustment itself sets the difficulty it proposes.
MutCheckAppliesDiff(client, result) ==
    IF result.shouldAdjust THEN [client EXCEPT !.diff = result.newDiff]
    ELSE client

\* The client when checkAdjustment(client) has returned this result: the
\* method assigns to no member of the client.
ClientAfterCheck(client, result) == client

\* vardiff.checkAdjustment(client) for the client of miner m.  The method
\* assigns to no member of the engine either.
CheckAdjustmentCall(m) ==
    LET result == CheckAdjustment(varDiff, clients[m], now)
    IN /\ checkResult' = [called |-> TRUE, miner |-> m, client |-> clients[m],
                          now |-> now, result |-> result]
       /\ clients' = [clients EXCEPT ![m] = ClientAfterCheck(@, result)]
       /\ UNCHANGED <<varDiff, initialDiff>>

\* vardiff.getInitialDiff(portDiff)
GetInitialDiffCall(portDiff) ==
    /\ PortDiffGiven(portDiff)
          \/ varDiff.maxDiff <= MaxMeanProduct \div varDiff.minDiff
    /\ initialDiff' = [called |-> TRUE, portDiff |-> portDiff,
                       result |-> GetInitialDiff(varDiff, portDiff)]
    /\ UNCHANGED checkResult

\* A client whose ring holds count timestamps, interval milliseconds apart,
\* the last one interval before nowMs, and whose difficulty was last set
\* elapsed milliseconds before nowMs.  With stepBack the wall clock was set
\* back by StepMs after the first half of the samples.
RingClient(diff, nowMs, count, interval, elapsed, stepBack) ==
    [diff |-> diff,
     shareTimestamps |-> [k \in 1..count |->
                             nowMs - (count - k + 1) * interval
                             + (IF stepBack /\ k <= count \div 2
                                THEN StepMs ELSE 0)],
     lastDifficultyUpdate |-> nowMs - elapsed,
     lastMonotonicTime |-> <<count * interval, count>>]

\* The state of a Stratum whose engine is this one and whose first client
\* is this one; the second client has sent no share, or is in the same
\* state as the first (twin).
CallStratumInit(engine, client, twin) ==
    /\ varDiff = engine
    /\ VarDiffArgsValid(varDiff)
    /\ clients = [m \in Miners |->
                    IF m = "m1" \/ twin THEN client
                    ELSE RingClient(client.diff, 2 * Epoch, 0, 0, 0, FALSE)]
    /\ now = 2 * Epoch
    /\ mono = Epoch
    /\ hrReads = 0
    /\ clockEvents = 0
    /\ shares = <<>>
    /\ emitted = <<>>
    /\ adjustments = <<>>

(***************************************************************************)
(* start.js: the process around one Stratum                                *)
(***************************************************************************)
VARIABLES
    operatorConfig,  \* config.json as the operator wrote it
    procState,       \* "start" before the script has run, then "running"
    logStream,       \* the log file's stream: "null", "open" or "ending"
    exited,          \* process.exit() was called ...
    exitCode,        \* ... with this code
    shutdownTimer,   \* the forced-exit timer of gracefulShutdown
    sinceSignal      \* whole seconds since the first SIGINT or SIGTERM

startVars == <<operatorConfig, procState, logStream, exited, exitCode,
               shutdownTimer, sinceSignal>>

\* The forced exit of gracefulShutdown comes 5000 ms after the signal.
ForceExitSeconds == 5

\* A configuration without a vardiff section ("_config.vardiff || {}").
NoVardiffSection ==
    [enabled |-> "undefined", minDiff |-> 0, maxDiff |-> 0,
     targetShareTime |-> 0, retargetTime |-> 0, variancePercent |-> 0]

\* The vardiff section of config.json as README.md describes it, with the
\* two settings of the engine's modes; an absent setting is 0 or "undefined".
VardiffSection(enabled, min, max, target, retarget, variance, factor, mode) ==
    [enabled |-> enabled, minDiff |-> min, maxDiff |-> max,
     targetShareTime |-> target, retargetTime |-> retarget,
     variancePercent |-> variance,
     adjustmentFactor |-> factor,
     useProportional |-> mode]

\* config.json: whether the file is there and is JSON ("missing",
\* "unparseable" or "parsed"), and of its content what start.js looks at.
OperatorConfig(file, coinbaseAddress, rpc, retryAttempts, logFile, vardiff) ==
    [file |-> file, coinbaseAddress |-> coinbaseAddress,
     rpc |-> [present |-> rpc, retryAttempts |-> retryAttempts],
     logFile |-> logFile, vardiff |-> vardiff]

\* A complete config.json without a vardiff section and without a log file.
DefaultOperatorConfig ==
    OperatorConfig("parsed", TRUE, TRUE, 0, FALSE,
                   VardiffSection("undefined", 0, 0, 0, 0, 0, 0, "undefined"))

\* "if (!configPath)", the catch of JSON.parse, "if (!config.coinbaseAddress)"
\* and "if (!config.rpc || !config.rpc.host || !config.rpc.port)".
ConfigRejected(cfg) ==
    \/ cfg.file # "parsed"
    \/ ~cfg.coinbaseAddress
    \/ ~cfg.rpc.present

\* createStratum(): the configuration the Stratum is constructed with.  It
\* takes coinbaseAddress, blockBrand, host, port, the rpc section,
\* jobUpdateInterval and blockPollIntervalMs from the operator's file;
\* neither vardiff nor startupRetryAttempts is among them.
CreateStratum(cfg) ==
    [rpc |-> [retryAttempts |-> IF cfg.rpc.retryAttempts = 0
                                THEN 3 ELSE cfg.rpc.retryAttempts],
     vardiff |-> NoVardiffSection,
     startupRetryAttempts |-> 0]

\* The state of a process whose script has run without an exit.
StartInit(cfg) ==
    /\ operatorConfig = cfg
    /\ procState = "running"
    /\ logStream = IF cfg.logFile THEN "open" ELSE "null"
    /\ exited = FALSE
    /\ exitCode = 0
    /\ shutdownTimer = "none"
    /\ sinceSignal = 0

\* The state of a process before its script runs.
ProcessInit(cfg) ==
    /\ operatorConfig = cfg
    /\ procState = "start"
    /\ logStream = "null"
    /\ exited = FALSE
    /\ exitCode = 0
    /\ shutdownTimer = "none"
    /\ sinceSignal = 0

\* process.exit(code)
Exit(code) ==
    /\ exited' = TRUE
    /\ exitCode' = code

RECURSIVE SumOf(_)
SumOf(seq) == IF seq = <<>> THEN 0 ELSE seq[1] + SumOf(Tail(seq))

\* How often the callback given to destroy() has run: in destroy() itself,
\* or as the callback of the server's stop().
DestroyCallbackRuns(direct, stops) == direct + SumOf(stops)

\* An event handler of the process runs only while the process does.
InProcess == procState = "running" /\ ~exited

\* The callbacks start.js gave to init() and to destroy(), when the step
\* calls them: an init error exits with 1; after destroy the log stream is
\* ended first, if there is one, and the exit is the callback of end().
StartCallbacks ==
    LET initErr == /\ Len(initCallbacks') > Len(initCallbacks)
                   /\ ~initCallbacks'[Len(initCallbacks')].isNull
        destroyed == DestroyCallbackRuns(destroyCallbacks', stopCallbacks')
                        > DestroyCallbackRuns(destroyCallbacks, stopCallbacks)
    IN IF initErr
       THEN Exit(1) /\ UNCHANGED logStream
       ELSE IF destroyed
       THEN IF logStream # "null"
            THEN logStream' = "ending" /\ UNCHANGED <<exited, exitCode>>
            ELSE Exit(0) /\ UNCHANGED logStream
       ELSE UNCHANGED <<logStream, exited, exitCode>>

\* The script from its first line to the end of startStratum(): the
\* configuration is loaded and checked, the Stratum made and init() called.
Main ==
    /\ procState = "start" /\ ~exited
    /\ procState' = "running"
    /\ IF ConfigRejected(operatorConfig)
       THEN /\ Exit(1)
            /\ UNCHANGED <<logStream, initVars, rpcVars>>
       ELSE /\ logStream' = IF operatorConfig.logFile THEN "open" ELSE "null"
            /\ StratumInitCall
            /\ UNCHANGED <<exited, exitCode>>
    /\ UNCHANGED <<operatorConfig, shutdownTimer, sinceSignal>>

\* SIGINT or SIGTERM: gracefulShutdown() with the Stratum there.
GracefulShutdown ==
    /\ InProcess
    /\ Destroy
    /\ shutdownTimer' = "armed"
    /\ StartCallbacks
    /\ UNCHANGED <<operatorConfig, procState, sinceSignal>>

\* The callback of logStream.end().
OnLogStreamEnd ==
    /\ InProcess
    /\ logStream = "ending"
    /\ Exit(0)
    /\ UNCHANGED <<operatorConfig, procState, logStream, shutdownTimer,
                   sinceSignal>>

\* An 'error' event of the log stream while it is written to.
OnLogStreamError ==
    /\ InProcess
    /\ logStream = "open"
    /\ logStream' = "null"
    /\ UNCHANGED <<operatorConfig, procState, exited, exitCode,
                   shutdownTimer, sinceSignal>>

\* A second passes after the signal; the forced exit is not late.
SecondPasses ==
    /\ InProcess
    /\ shutdownTimer = "armed"
    /\ sinceSignal < ForceExitSeconds
    /\ sinceSignal' = sinceSignal + 1
    /\ UNCHANGED <<operatorConfig, procState, logStream, exited, exitCode,
                   shutdownTimer>>

\* The 5000 ms timer of gracefulShutdown fires.
ForcedExit ==
    /\ InProcess
    /\ shutdownTimer = "armed"
    /\ sinceSignal = ForceExitSeconds
    /\ Exit(0)
    /\ UNCHANGED <<operatorConfig, procState, logStream, shutdownTimer,
                   sinceSignal>>

\* A handler of the Stratum runs in the process: the frame of start.js.
ProcessFrame ==
    /\ StartCallbacks
    /\ UNCHANGED <<operatorConfig, procState, shutdownTimer, sinceSignal>>

(***************************************************************************)
(* Stratum.init called more than once (class.Stratum.js)                   *)
(*                                                                         *)
(* Every init() call that passes the two guards creates its own Server,    *)
(* JobManager and RpcClient and runs its own _initWithRetry; the callbacks *)
(* of _initWithRetry read _server, _jobManager and _rpcClient when they    *)
(* run, which are the objects of the newest call.                          *)
(***************************************************************************)
\* Number of Stratum.init() calls the environment makes.
MaxInitCalls == 2

VARIABLES
    servers,      \* the Server objects init() created, the last is _server
    jobManagers,  \* the JobManager objects init() created
    rpcClients,   \* the RpcClient objects init() created
    chains        \* one record per init() call: where its _initWithRetry is

reinitVars == <<servers, jobManagers, rpcClients, chains>>

ReinitInit ==
    /\ servers = <<>>
    /\ jobManagers = <<>>
    /\ rpcClients = <<>>
    /\ chains = <<>>

\* "_._server = _._createServer()" and the two lines after it: a new object
\* takes the place of the one the field held.
CreateComponent(existing, made) == Append(existing, made)

\* The callback of an init() call is called with null or with an error.
ChainReturns(chain, result) == [chain EXCEPT !.st = "returned", !.result = result]

\* _initWithRetry up to testConnection, on the RpcClient _rpcClient holds.
ChainTest(chain, attempt) ==
    /\ chains' = [chains EXCEPT ![chain] =
                     [@ EXCEPT !.st = "testing", !.attempt = attempt]]
    /\ rpcClients' = [rpcClients EXCEPT ![Len(rpcClients)].tests = @ + 1]

\* Stratum.init(callback), called at any time.
InitCallAgain ==
    /\ Len(chains) < MaxInitCalls
    /\ LET chain == [st |-> "new", attempt |-> 0, server |-> 0, result |-> "none"]
       IN IF isInit
          THEN /\ chains' = Append(chains, ChainReturns(chain, "null"))
               /\ UNCHANGED <<servers, jobManagers, rpcClients>>
          ELSE IF isDestroyed
          THEN /\ chains' = Append(chains, ChainReturns(chain, "error"))
               /\ UNCHANGED <<servers, jobManagers, rpcClients>>
          ELSE /\ servers' = CreateComponent(servers, [isStarted |-> FALSE, listener |-> "null"])
               /\ jobManagers' = CreateComponent(jobManagers, [inits |-> 0])
               /\ rpcClients' = CreateComponent(rpcClients, [tests |-> 1])
               /\ chains' = Append(chains, [chain EXCEPT !.st = "testing", !.attempt = 1])
    /\ UNCHANGED initVars

\* The callback the _initWithRetry of this init() call gave to
\* testConnection.
ChainOnTestConnection(chain, errIsNull) ==
    /\ chains[chain].st = "testing"
    /\ IF ~errIsNull
       THEN /\ chains' = [chains EXCEPT ![chain] =
                   IF MayRetryInit(@.attempt, MaxAttempts(config), isDestroyed)
                   THEN [@ EXCEPT !.st = "retryWait"]
                   ELSE ChainReturns(@, "error")]
            /\ UNCHANGED jobManagers
       ELSE /\ chains' = [chains EXCEPT ![chain].st = "jobInit"]
            /\ jobManagers' = [jobManagers EXCEPT ![Len(jobManagers)].inits = @ + 1]
    /\ UNCHANGED <<servers, rpcClients, initVars>>

\* The startupRetryDelay timer of this init() call fires.
ChainRetryTimer(chain) ==
    /\ chains[chain].st = "retryWait"
    /\ ChainTest(chain, chains[chain].attempt + 1)
    /\ UNCHANGED <<servers, jobManagers, initVars>>

\* The callback the _initWithRetry of this init() call gave to
\* _jobManager.init: on success _server.start is called, which calls back
\* at once with an error when that Server was started already.
ChainOnJobManagerInit(chain, jobErrIsNull) ==
    /\ chains[chain].st = "jobInit"
    /\ IF ~StartAfterJobInit(jobErrIsNull)
       THEN /\ chains' = [chains EXCEPT ![chain] = ChainReturns(@, "error")]
            /\ UNCHANGED servers
       ELSE IF servers[Len(servers)].isStarted
       THEN /\ chains' = [chains EXCEPT ![chain] = ChainReturns(@, "error")]
            /\ UNCHANGED servers
       ELSE /\ servers' = [servers EXCEPT ![Len(servers)] =
                              [isStarted |-> TRUE, listener |-> "binding"]]
            /\ chains' = [chains EXCEPT ![chain] =
                             [@ EXCEPT !.st = "starting", !.server = Len(servers)]]
    /\ UNCHANGED <<jobManagers, rpcClients, initVars>>

\* The listener of this Server is bound, or fails to bind: the callback the
\* _initWithRetry that started it gave to start().
ChainOnServerStart(s, serverErrIsNull) ==
    /\ servers[s].listener = "binding"
    /\ servers' = [servers EXCEPT ![s].listener =
                      IF serverErrIsNull THEN "listening" ELSE "failed"]
    /\ chains' = [k \in 1..Len(chains) |->
                     IF chains[k].st = "starting" /\ chains[k].server = s
                     THEN ChainReturns(chains[k],
                                       IF serverErrIsNull THEN "null" ELSE "error")
                     ELSE chains[k]]
    /\ isInit' = (isInit \/ serverErrIsNull)
    /\ UNCHANGED <<jobManagers, rpcClients, config, isDestroyed, created,
                   initState, initAttempt, initCallbacks, rpcConnected,
                   jobManager, destroyCalls, destroyCallbacks>>

(***************************************************************************)
(* Specifications                                                          *)
(***************************************************************************)
vars == <<serverVars, jobVars, rpcVars, stratumVars, initVars, jsonVars, broadcastVars, startVars, callVars, reinitVars>>

\* The operator's configuration file with nothing but the defaults, and the
\* maximum difficulty set (the default is outside the model's integers).
DefaultRpcConfig == [retryAttempts |-> 0]
\* The configuration a Stratum is constructed with.
StratumConfig(rpcConfig, vardiffConfig, startupRetryAttempts) ==
    [rpc |-> rpcConfig, vardiff |-> vardiffConfig,
     startupRetryAttempts |-> startupRetryAttempts]
DefaultVardiffConfig ==
    [enabled |-> "undefined", minDiff |-> 0, maxDiff |-> 5 * DiffOne,
     targetShareTime |-> 0, retargetTime |-> 0, variancePercent |-> 0]
\* Bounds that 6 and 7 significant decimals do not share: the minimum is
\* below half a step of toFixed(6), the maximum has a seventh digit.
FineVardiffConfig ==
    [enabled |-> "true", minDiff |-> 4, maxDiff |-> DiffOne + 60,
     targetShareTime |-> 15, retargetTime |-> 90, variancePercent |-> 30]
VardiffConfigs == {DefaultVardiffConfig, FineVardiffConfig}
RpcConfigs == {DefaultRpcConfig, [retryAttempts |-> 1]}
\* Port difficulties: 0.000001, 0.250002 and 0.5.
PortDiffs == {10, (DiffOne \div 4) + 20, DiffOne \div 2}
\* The spacing of the shares a client sent before the initial state: a
\* burst, on target, and slow.
OnTargetInterval == 15 * 1000
SlowInterval == 90 * 1000
InitIntervals == {0, OnTargetInterval, SlowInterval}

Init ==
    /\ ServerInit
    /\ JobInit
    /\ ReinitInit
    /\ CallInit
    /\ StartInit(DefaultOperatorConfig)
    /\ BroadcastInit
    /\ JsonInit(<<>>)
    /\ RpcInit(DefaultRpcConfig)
    /\ StratumInit(DefaultVardiffConfig, DiffOne \div 2, OnTargetInterval)
    /\ StratumNew(StratumConfig(DefaultRpcConfig, DefaultVardiffConfig, 0))

\* The server alone: connections, disconnections, start and stop.
ServerNext ==
    \/ Start /\ UNCHANGED <<jobVars, rpcVars, stratumVars, initVars, jsonVars, broadcastVars, startVars, callVars, reinitVars>>
    \/ OnListening /\ UNCHANGED <<jobVars, rpcVars, stratumVars, initVars, jsonVars, broadcastVars, startVars, callVars, reinitVars>>
    \/ \E code \in BindErrorCodes \cup RuntimeErrorCodes :
          OnServerError(code) /\ UNCHANGED <<jobVars, rpcVars, stratumVars, initVars, jsonVars, broadcastVars, startVars, callVars, reinitVars>>
    \/ \E c \in Conns, hasRemote \in BOOLEAN :
          \* connections are numbered in the order they are accepted
          /\ \A d \in 1..(c - 1) : conns[d].st # "none"
          /\ OnClientConnect(c, hasRemote)
          /\ UNCHANGED <<jobVars, rpcVars, stratumVars, initVars, jsonVars, broadcastVars, startVars, callVars, reinitVars>>
    \/ \E c \in Conns : ClientAuthorize(c) /\ UNCHANGED <<jobVars, rpcVars, stratumVars, initVars, jsonVars, broadcastVars, startVars, callVars, reinitVars>>
    \/ \E c \in Conns : OnClientDisconnect(c) /\ UNCHANGED <<jobVars, rpcVars, stratumVars, initVars, jsonVars, broadcastVars, startVars, callVars, reinitVars>>
    \/ Stop /\ UNCHANGED <<jobVars, rpcVars, stratumVars, initVars, jsonVars, broadcastVars, startVars, callVars, reinitVars>>
    \/ OnServerClosed /\ UNCHANGED <<jobVars, rpcVars, stratumVars, initVars, jsonVars, broadcastVars, startVars, callVars, reinitVars>>
    \/ OnStopTimeout /\ UNCHANGED <<jobVars, rpcVars, stratumVars, initVars, jsonVars, broadcastVars, startVars, callVars, reinitVars>>

SpecServer == Init /\ [][ServerNext]_vars

\* Share registration on jobs.
JobNext ==
    \E j \in JobIds, n \in Nonces, x \in ExtraNonces :
       RegisterShare(j, n, x) /\ UNCHANGED <<serverVars, rpcVars, stratumVars, initVars, jsonVars, broadcastVars, startVars, callVars, reinitVars>>

SpecJob == Init /\ [][JobNext]_vars

\* The RPC client alone, for each retryAttempts setting.
InitRpc ==
    /\ ServerInit
    /\ JobInit
    /\ ReinitInit
    /\ CallInit
    /\ StartInit(DefaultOperatorConfig)
    /\ BroadcastInit
    /\ JsonInit(<<>>)
    /\ \E rpcConfig \in RpcConfigs :
          /\ RpcInit(rpcConfig)
          /\ StratumNew(StratumConfig(rpcConfig, DefaultVardiffConfig, 0))
    /\ StratumInit(DefaultVardiffConfig, DiffOne \div 2, OnTargetInterval)

RpcNext ==
    \/ \E method \in DirectMethods :
          RpcCmd(method) /\ UNCHANGED <<serverVars, jobVars, stratumVars, initVars, jsonVars, broadcastVars, startVars, callVars, reinitVars>>
    \/ \E r \in 1..Len(reqs) :
          RpcRetry(r) /\ UNCHANGED <<serverVars, jobVars, stratumVars, initVars, jsonVars, broadcastVars, startVars, callVars, reinitVars>>
    \/ \E r \in 1..Len(reqs), response \in Responses :
          RpcRespond(r, response) /\ UNCHANGED <<serverVars, jobVars, jsonVars, broadcastVars, startVars, callVars, reinitVars>>

SpecRpc == InitRpc /\ [][RpcNext]_vars

\* Shares of every kind through submitShare and the block submission that
\* follows; no time passes.  The first client's shares have come slowly, the
\* second client has sent none yet.
InitShare ==
    /\ ServerInit
    /\ JobInit
    /\ ReinitInit
    /\ CallInit
    /\ StartInit(DefaultOperatorConfig)
    /\ BroadcastInit
    /\ JsonInit(<<>>)
    /\ RpcInit([retryAttempts |-> 1])
    /\ StratumInit(DefaultVardiffConfig, DiffOne \div 2, SlowInterval)
    /\ StratumNew(StratumConfig([retryAttempts |-> 1], DefaultVardiffConfig, 0))

ShareNext ==
    \/ \E m \in Miners, k \in ShareKinds :
          SubmitShare(m, k[1], k[2]) /\ UNCHANGED <<serverVars, jobVars, initVars, jsonVars, broadcastVars, startVars, callVars, reinitVars>>
    \/ \E s \in 1..Len(shares) : UpdateJobDone(s) /\ UNCHANGED <<serverVars, jobVars, initVars, jsonVars, broadcastVars, startVars, callVars, reinitVars>>
    \/ \E r \in 1..Len(reqs) :
          RpcRetry(r) /\ UNCHANGED <<serverVars, jobVars, stratumVars, initVars, jsonVars, broadcastVars, startVars, callVars, reinitVars>>
    \/ \E r \in 1..Len(reqs), response \in ShareResponses :
          RpcRespond(r, response) /\ UNCHANGED <<serverVars, jobVars, jsonVars, broadcastVars, startVars, callVars, reinitVars>>

SpecShare == InitShare /\ [][ShareNext]_vars

\* Valid shares, the passing of time and steps of the wall clock, for each
\* vardiff configuration, initial difficulty and share history.
InitVarDiff ==
    /\ ServerInit
    /\ JobInit
    /\ ReinitInit
    /\ CallInit
    /\ StartInit(DefaultOperatorConfig)
    /\ BroadcastInit
    /\ JsonInit(<<>>)
    /\ RpcInit(DefaultRpcConfig)
    /\ \E vardiffConfig \in VardiffConfigs, portDiff \in PortDiffs,
          interval \in InitIntervals :
          /\ StratumInit(vardiffConfig, portDiff, interval)
          /\ StratumNew(StratumConfig(DefaultRpcConfig, vardiffConfig, 0))

VarDiffNext ==
    \/ \E m \in Miners :
          SubmitShare(m, TRUE, FALSE) /\ UNCHANGED <<serverVars, jobVars, initVars, jsonVars, broadcastVars, startVars, callVars, reinitVars>>
    \/ Tick /\ UNCHANGED <<serverVars, jobVars, rpcVars, initVars, jsonVars, broadcastVars, startVars, callVars, reinitVars>>
    \/ \E d \in {StepMs, -StepMs} :
          ClockStep(d) /\ UNCHANGED <<serverVars, jobVars, rpcVars, initVars, jsonVars, broadcastVars, startVars, callVars, reinitVars>>

SpecVarDiff == InitVarDiff /\ [][VarDiffNext]_vars

\* The bodies of HTTP 200 answers through _parseResponse.
InitJson ==
    /\ ServerInit
    /\ JobInit
    /\ ReinitInit
    /\ CallInit
    /\ StartInit(DefaultOperatorConfig)
    /\ BroadcastInit
    /\ \E values \in JsonBodies : JsonInit(values)
    /\ RpcInit(DefaultRpcConfig)
    /\ StratumInit(DefaultVardiffConfig, DiffOne \div 2, OnTargetInterval)
    /\ StratumNew(StratumConfig(DefaultRpcConfig, DefaultVardiffConfig, 0))

JsonNext ==
    OnResponseEnd /\ UNCHANGED <<serverVars, jobVars, rpcVars, stratumVars, initVars, broadcastVars, startVars, callVars, reinitVars>>

SpecJson == InitJson /\ [][JsonNext]_vars

\* A Stratum whose init() succeeds, its miners, and the jobs the job
\* manager emits.
BroadcastNext ==
    \/ StratumInitCall /\ UNCHANGED <<serverVars, jobVars, stratumVars, jsonVars, broadcastVars, startVars, callVars, reinitVars>>
    \/ \E r \in 1..Len(reqs) :
          RpcRespond(r, HttpResponse(200, ResultBody(ResultObject({"chain", "blocks", "headers"}))))
          /\ UNCHANGED <<serverVars, jobVars, jsonVars, broadcastVars, startVars, callVars, reinitVars>>
    \/ OnJobManagerInit(NoError) /\ UNCHANGED <<jobVars, rpcVars, stratumVars, jsonVars, broadcastVars, startVars, callVars, reinitVars>>
    \/ StratumOnListening /\ UNCHANGED <<jobVars, rpcVars, stratumVars, jsonVars, broadcastVars, startVars, callVars, reinitVars>>
    \/ \E c \in 1..MaxMiners, hasRemote \in BOOLEAN :
          \* connections are numbered in the order they are accepted
          /\ \A d \in 1..(c - 1) : conns[d].st # "none"
          /\ OnClientConnect(c, hasRemote)
          /\ UNCHANGED <<jobVars, rpcVars, stratumVars, initVars, jsonVars, broadcastVars, startVars, callVars, reinitVars>>
    \/ \E c \in Conns :
          ClientAuthorize(c)
          /\ UNCHANGED <<jobVars, rpcVars, stratumVars, initVars, jsonVars, broadcastVars, startVars, callVars, reinitVars>>
    \/ \E c \in Conns :
          OnClientDisconnect(c)
          /\ UNCHANGED <<jobVars, rpcVars, stratumVars, initVars, jsonVars, broadcastVars, startVars, callVars, reinitVars>>
    \/ \E isNewBlock \in BOOLEAN, failed \in SUBSET Conns :
          OnNextJob(isNewBlock, failed)
          /\ UNCHANGED <<serverVars, jobVars, rpcVars, stratumVars, initVars, jsonVars, startVars, callVars, reinitVars>>

SpecBroadcast == Init /\ [][BroadcastNext]_vars

\* Stratum.init and Stratum.destroy, for each startupRetryAttempts setting:
\* the connection test with the retries of cmd(), the job manager's first
\* template, and the listener.
StartupRetryAttempts == {0, 1, 2}
InitResponses ==
    {SocketError("ECONNREFUSED", MsgConnRefused),
     HttpResponse(401, NoBody),
     HttpResponse(200, ResultBody(ResultObject({"chain", "blocks", "headers"})))}
JobManagerErrors == {NoError, MkError("undefined", MsgNoTemplate, FALSE, FALSE)}

InitStartup ==
    /\ ServerInit
    /\ JobInit
    /\ ReinitInit
    /\ CallInit
    /\ StartInit(DefaultOperatorConfig)
    /\ BroadcastInit
    /\ JsonInit(<<>>)
    /\ RpcInit([retryAttempts |-> 1])
    /\ StratumInit(DefaultVardiffConfig, DiffOne \div 2, OnTargetInterval)
    /\ \E n \in StartupRetryAttempts :
          StratumNew(StratumConfig([retryAttempts |-> 1], DefaultVardiffConfig, n))

StartupNext ==
    \/ StratumInitCall /\ UNCHANGED <<serverVars, jobVars, stratumVars, jsonVars, broadcastVars, startVars, callVars, reinitVars>>
    \/ \E r \in 1..Len(reqs), response \in InitResponses :
          RpcRespond(r, response) /\ UNCHANGED <<serverVars, jobVars, jsonVars, broadcastVars, startVars, callVars, reinitVars>>
    \/ \E r \in 1..Len(reqs) :
          RpcRetry(r) /\ UNCHANGED <<serverVars, jobVars, stratumVars, initVars, jsonVars, broadcastVars, startVars, callVars, reinitVars>>
    \/ InitRetryTimer /\ UNCHANGED <<serverVars, jobVars, stratumVars, jsonVars, broadcastVars, startVars, callVars, reinitVars>>
    \/ \E jobErr \in JobManagerErrors :
          OnJobManagerInit(jobErr) /\ UNCHANGED <<jobVars, rpcVars, stratumVars, jsonVars, broadcastVars, startVars, callVars, reinitVars>>
    \/ StratumOnListening /\ UNCHANGED <<jobVars, rpcVars, stratumVars, jsonVars, broadcastVars, startVars, callVars, reinitVars>>
    \/ \E code \in BindErrorCodes \cup RuntimeErrorCodes :
          StratumOnServerError(code) /\ UNCHANGED <<jobVars, rpcVars, stratumVars, jsonVars, broadcastVars, startVars, callVars, reinitVars>>
    \/ Destroy /\ UNCHANGED <<jobVars, rpcVars, stratumVars, jsonVars, broadcastVars, startVars, callVars, reinitVars>>
    \/ OnServerClosed /\ UNCHANGED <<jobVars, rpcVars, stratumVars, initVars, jsonVars, broadcastVars, startVars, callVars, reinitVars>>
    \/ OnStopTimeout /\ UNCHANGED <<jobVars, rpcVars, stratumVars, initVars, jsonVars, broadcastVars, startVars, callVars, reinitVars>>

SpecStartup == InitStartup /\ [][StartupNext]_vars

\* The vardiff sections an operator writes: none, vardiff switched off, the
\* fixed-factor mode, and every documented number set.
OperatorVardiffs ==
    {VardiffSection("undefined", 0, 0, 0, 0, 0, 0, "undefined"),
     VardiffSection("false", 0, 0, 0, 0, 0, 0, "undefined"),
     VardiffSection("true", 0, 0, 0, 0, 0, 2, "false"),
     VardiffSection("true", DiffOne \div 100, 5 * DiffOne, 30, 120, 20, 0,
                    "undefined")}

\* A process started with each of these sections, as it is when its first
\* client has sent shares: valid shares and the passing of time.
InitOperator ==
    /\ ServerInit
    /\ JobInit
    /\ ReinitInit
    /\ CallInit
    /\ BroadcastInit
    /\ JsonInit(<<>>)
    /\ \E vardiff \in OperatorVardiffs, portDiff \in PortDiffs,
          interval \in InitIntervals :
          LET cfg == OperatorConfig("parsed", TRUE, TRUE, 1, FALSE, vardiff)
          IN /\ StartInit(cfg)
             /\ RpcInit(CreateStratum(cfg).rpc)
             /\ StratumInit(CreateStratum(cfg).vardiff, portDiff, interval)
             /\ StratumNew(CreateStratum(cfg))

OperatorNext ==
    \/ \E m \in Miners :
          /\ InProcess
          /\ SubmitShare(m, TRUE, FALSE)
          /\ UNCHANGED <<serverVars, jobVars, initVars, jsonVars, broadcastVars, startVars, callVars, reinitVars>>
    \/ /\ InProcess
       /\ Tick
       /\ UNCHANGED <<serverVars, jobVars, rpcVars, initVars, jsonVars, broadcastVars, startVars, callVars, reinitVars>>

SpecOperator == InitOperator /\ [][OperatorNext]_vars

\* The configuration files a process is started with: none, one that is
\* not JSON, one without coinbaseAddress, one without the rpc section, and
\* complete ones with and without a log file.
ProcessConfigs ==
    {OperatorConfig(file, coinbaseAddress, rpc, 1, logFile,
                    VardiffSection("undefined", 0, 0, 0, 0, 0, 0, "undefined")) :
        file \in {"parsed"}, coinbaseAddress \in BOOLEAN, rpc \in BOOLEAN,
        logFile \in BOOLEAN}
    \cup {OperatorConfig(file, FALSE, FALSE, 0, FALSE,
                    VardiffSection("undefined", 0, 0, 0, 0, 0, 0, "undefined")) :
        file \in {"missing", "unparseable"}}

\* The process from its start: the script, the startup of the Stratum, the
\* signals and the timers.
InitProcess ==
    /\ ServerInit
    /\ JobInit
    /\ ReinitInit
    /\ CallInit
    /\ BroadcastInit
    /\ JsonInit(<<>>)
    /\ \E cfg \in ProcessConfigs :
          /\ ProcessInit(cfg)
          /\ RpcInit(CreateStratum(cfg).rpc)
          /\ StratumInit(CreateStratum(cfg).vardiff, DiffOne \div 2,
                         OnTargetInterval)
          /\ StratumNew(CreateStratum(cfg))

ProcessNext ==
    \/ Main /\ UNCHANGED <<serverVars, jobVars, stratumVars, jsonVars, broadcastVars, callVars, reinitVars>>
    \/ \E r \in 1..Len(reqs), response \in InitResponses :
          /\ InProcess
          /\ RpcRespond(r, response)
          /\ UNCHANGED <<serverVars, jobVars, jsonVars, broadcastVars, callVars, reinitVars>>
          /\ ProcessFrame
    \/ \E r \in 1..Len(reqs) :
          /\ InProcess
          /\ RpcRetry(r)
          /\ UNCHANGED <<serverVars, jobVars, stratumVars, initVars, jsonVars, broadcastVars, callVars, reinitVars>>
          /\ ProcessFrame
    \/ /\ InProcess
       /\ InitRetryTimer
       /\ UNCHANGED <<serverVars, jobVars, stratumVars, jsonVars, broadcastVars, callVars, reinitVars>>
       /\ ProcessFrame
    \/ \E jobErr \in JobManagerErrors :
          /\ InProcess
          /\ OnJobManagerInit(jobErr)
          /\ UNCHANGED <<jobVars, rpcVars, stratumVars, jsonVars, broadcastVars, callVars, reinitVars>>
          /\ ProcessFrame
    \/ /\ InProcess
       /\ StratumOnListening
       /\ UNCHANGED <<jobVars, rpcVars, stratumVars, jsonVars, broadcastVars, callVars, reinitVars>>
       /\ ProcessFrame
    \/ \E code \in BindErrorCodes \cup RuntimeErrorCodes :
          /\ InProcess
          /\ StratumOnServerError(code)
          /\ UNCHANGED <<jobVars, rpcVars, stratumVars, jsonVars, broadcastVars, callVars, reinitVars>>
          /\ ProcessFrame
    \/ GracefulShutdown /\ UNCHANGED <<jobVars, rpcVars, stratumVars, jsonVars, broadcastVars, callVars, reinitVars>>
    \/ /\ InProcess
       /\ OnServerClosed
       /\ UNCHANGED <<jobVars, rpcVars, stratumVars, initVars, jsonVars, broadcastVars, callVars, reinitVars>>
       /\ ProcessFrame
    \/ /\ InProcess
       /\ OnStopTimeout
       /\ UNCHANGED <<jobVars, rpcVars, stratumVars, initVars, jsonVars, broadcastVars, callVars, reinitVars>>
       /\ ProcessFrame
    \/ OnLogStreamEnd /\ UNCHANGED <<serverVars, jobVars, rpcVars, stratumVars, initVars, jsonVars, broadcastVars, callVars, reinitVars>>
    \/ OnLogStreamError /\ UNCHANGED <<serverVars, jobVars, rpcVars, stratumVars, initVars, jsonVars, broadcastVars, callVars, reinitVars>>
    \/ SecondPasses /\ UNCHANGED <<serverVars, jobVars, rpcVars, stratumVars, initVars, jsonVars, broadcastVars, callVars, reinitVars>>
    \/ ForcedExit /\ UNCHANGED <<serverVars, jobVars, rpcVars, stratumVars, initVars, jsonVars, broadcastVars, callVars, reinitVars>>

SpecProcess == InitProcess /\ [][ProcessNext]_vars

\* The engines checkAdjustment and getInitialDiff are called on: the one
\* Stratum makes without a vardiff section, the same one disabled, the
\* fixed-factor mode with the default factor, two with small bounds and one
\* whose maximum is half a percent above difficulty 1.
EngineArgs(enabled, minDiff, maxDiff, useProportional) ==
    [enabled |-> enabled, minDiff |-> minDiff, maxDiff |-> maxDiff,
     targetShareTime |-> 15, retargetTime |-> 90, variancePercent |-> 30,
     adjustmentFactor |-> 0, useProportional |-> useProportional]
DefaultEngine == CreateVarDiff(NoVardiffSection)
Engines ==
    {DefaultEngine,
     VarDiffNew(EngineArgs(FALSE, DiffOne \div 1000, DefaultMaxDiff, "undefined")),
     VarDiffNew(EngineArgs(TRUE, DiffOne \div 1000, DefaultMaxDiff, "false")),
     VarDiffNew(EngineArgs(TRUE, 4, 5, "undefined")),
     VarDiffNew(EngineArgs(TRUE, DiffOne \div 1000,
                           DiffOne + DiffOne \div 200, "undefined")),
     VarDiffNew(EngineArgs(TRUE, 10, 1000, "undefined"))}
\* Port difficulties 1 and 2.5, the sizes of the ring, the spacing of its
\* samples and the time since the last difficulty update.
CallPortDiffs == {DiffOne, 5 * (DiffOne \div 2)}
RingCounts == {0, MinShares - 1, MinShares, MinShares + 1}
RingIntervals == {0, 5 * 1000, 15 * 1000, 30 * 1000, 90 * 1000}
UpdateAges == {30 * 1000, 90 * 1000, 120 * 1000}

InitCall ==
    /\ ServerInit
    /\ JobInit
    /\ ReinitInit
    /\ StartInit(DefaultOperatorConfig)
    /\ CallInit
    /\ BroadcastInit
    /\ JsonInit(<<>>)
    /\ RpcInit(DefaultRpcConfig)
    /\ StratumNew(StratumConfig(DefaultRpcConfig, DefaultVardiffConfig, 0))
    /\ \E engine \in Engines, portDiff \in CallPortDiffs, count \in RingCounts,
          interval \in RingIntervals, elapsed \in UpdateAges,
          stepBack \in BOOLEAN, twin \in BOOLEAN :
          CallStratumInit(engine,
                          RingClient(GetInitialDiff(engine, portDiff),
                                     2 * Epoch, count, interval, elapsed,
                                     stepBack),
                          twin)

CallNext ==
    \/ \E m \in Miners :
          CheckAdjustmentCall(m) /\ UNCHANGED <<serverVars, jobVars, rpcVars, clockVars, shares, emitted, adjustments, initVars, jsonVars, broadcastVars, startVars, reinitVars>>
    \/ \E portDiff \in CallPortDiffs \cup {NoPortDiff, 0} :
          GetInitialDiffCall(portDiff) /\ UNCHANGED <<serverVars, jobVars, rpcVars, stratumVars, initVars, jsonVars, broadcastVars, startVars, reinitVars>>

SpecCall == InitCall /\ [][CallNext]_vars


\* A Stratum whose init() succeeds, the miners that connect to it, and
\* destroy() called at any moment of it.
ShutdownNext ==
    \/ StratumInitCall /\ UNCHANGED <<serverVars, jobVars, stratumVars, jsonVars, broadcastVars, startVars, callVars, reinitVars>>
    \/ \E r \in 1..Len(reqs) :
          RpcRespond(r, HttpResponse(200, ResultBody(ResultObject({"chain", "blocks", "headers"}))))
          /\ UNCHANGED <<serverVars, jobVars, jsonVars, broadcastVars, startVars, callVars, reinitVars>>
    \/ OnJobManagerInit(NoError) /\ UNCHANGED <<jobVars, rpcVars, stratumVars, jsonVars, broadcastVars, startVars, callVars, reinitVars>>
    \/ StratumOnListening /\ UNCHANGED <<jobVars, rpcVars, stratumVars, jsonVars, broadcastVars, startVars, callVars, reinitVars>>
    \/ \E c \in Conns, hasRemote \in BOOLEAN :
          \* connections are numbered in the order they are accepted
          /\ \A d \in 1..(c - 1) : conns[d].st # "none"
          /\ OnClientConnect(c, hasRemote)
          /\ UNCHANGED <<jobVars, rpcVars, stratumVars, initVars, jsonVars, broadcastVars, startVars, callVars, reinitVars>>
    \/ \E c \in Conns :
          OnClientDisconnect(c)
          /\ UNCHANGED <<jobVars, rpcVars, stratumVars, initVars, jsonVars, broadcastVars, startVars, callVars, reinitVars>>
    \/ Destroy /\ UNCHANGED <<jobVars, rpcVars, stratumVars, jsonVars, broadcastVars, startVars, callVars, reinitVars>>
    \/ OnServerClosed /\ UNCHANGED <<jobVars, rpcVars, stratumVars, initVars, jsonVars, broadcastVars, startVars, callVars, reinitVars>>
    \/ OnStopTimeout /\ UNCHANGED <<jobVars, rpcVars, stratumVars, initVars, jsonVars, broadcastVars, startVars, callVars, reinitVars>>

SpecShutdown == Init /\ [][ShutdownNext]_vars


\* The server alone, with timers that fire: the grace timer of stop() is not
\* postponed for ever.  Nothing makes the listener's close complete.
OnStopTimeoutStep ==
    OnStopTimeout /\ UNCHANGED <<jobVars, rpcVars, stratumVars, initVars, jsonVars, broadcastVars, startVars, callVars, reinitVars>>

SpecServerTimers == Init /\ [][ServerNext]_vars /\ WF_vars(OnStopTimeoutStep)


\* The RPC client with commands that overlap: a refused connection, a
\* timeout, an RPC error and a result, in any order of arrival.
OverlapResponses ==
    {SocketError("ECONNREFUSED", MsgConnRefused),
     SocketTimeout,
     HttpResponse(200, ErrorBody("-5", <<>>)),
     HttpResponse(200, ResultBody(ResultObject({"hash", "tx", "txid"})))}

InitOverlap ==
    /\ ServerInit
    /\ JobInit
    /\ ReinitInit
    /\ CallInit
    /\ StartInit(DefaultOperatorConfig)
    /\ BroadcastInit
    /\ JsonInit(<<>>)
    /\ RpcInit([retryAttempts |-> 1])
    /\ StratumNew(StratumConfig([retryAttempts |-> 1], DefaultVardiffConfig, 0))
    /\ StratumInit(DefaultVardiffConfig, DiffOne \div 2, OnTargetInterval)

OverlapNext ==
    \/ RpcCmdUpTo("getblockchaininfo", MaxOverlap) /\ UNCHANGED <<serverVars, jobVars, stratumVars, initVars, jsonVars, broadcastVars, startVars, callVars, reinitVars>>
    \/ \E r \in 1..Len(reqs) :
          RpcRetry(r) /\ UNCHANGED <<serverVars, jobVars, stratumVars, initVars, jsonVars, broadcastVars, startVars, callVars, reinitVars>>
    \/ \E r \in 1..Len(reqs), response \in OverlapResponses :
          RpcRespond(r, response) /\ UNCHANGED <<serverVars, jobVars, jsonVars, broadcastVars, startVars, callVars, reinitVars>>
    \/ \E r \in 1..Len(reqs), response \in OverlapResponses :
          RpcLateEvent(r, response) /\ UNCHANGED <<serverVars, jobVars, stratumVars, initVars, jsonVars, broadcastVars, startVars, callVars, reinitVars>>

SpecRpcOverlap == InitOverlap /\ [][OverlapNext]_vars

\* A Stratum whose init() is called more than once, at any time.
InitReinit ==
    /\ ServerInit
    /\ JobInit
    /\ ReinitInit
    /\ CallInit
    /\ StartInit(DefaultOperatorConfig)
    /\ BroadcastInit
    /\ JsonInit(<<>>)
    /\ RpcInit(DefaultRpcConfig)
    /\ StratumInit(DefaultVardiffConfig, DiffOne \div 2, OnTargetInterval)
    /\ \E n \in StartupRetryAttempts :
          StratumNew(StratumConfig(DefaultRpcConfig, DefaultVardiffConfig, n))

ReinitNext ==
    \/ InitCallAgain /\ UNCHANGED <<serverVars, jobVars, rpcVars, stratumVars, jsonVars, broadcastVars, startVars, callVars>>
    \/ \E chain \in 1..Len(chains), errIsNull \in BOOLEAN :
          ChainOnTestConnection(chain, errIsNull) /\ UNCHANGED <<serverVars, jobVars, rpcVars, stratumVars, jsonVars, broadcastVars, startVars, callVars>>
    \/ \E chain \in 1..Len(chains) :
          ChainRetryTimer(chain) /\ UNCHANGED <<serverVars, jobVars, rpcVars, stratumVars, jsonVars, broadcastVars, startVars, callVars>>
    \/ \E chain \in 1..Len(chains), jobErrIsNull \in BOOLEAN :
          ChainOnJobManagerInit(chain, jobErrIsNull) /\ UNCHANGED <<serverVars, jobVars, rpcVars, stratumVars, jsonVars, broadcastVars, startVars, callVars>>
    \/ \E s \in 1..Len(servers), serverErrIsNull \in BOOLEAN :
          ChainOnServerStart(s, serverErrIsNull) /\ UNCHANGED <<serverVars, jobVars, rpcVars, stratumVars, jsonVars, broadcastVars, startVars, callVars>>

SpecReinit == InitReinit /\ [][ReinitNext]_vars

(***************************************************************************)
(* Claims: Server                                                          *)
(***************************************************************************)
OpenConns == {c \in Conns : conns[c].st = "open"}

\* C1: any two clients that are connected at the same time, and any two
\* entries of the client map, carry different extraNonce1Hex values; every
\* map entry is filed under its client's extraNonce1Hex.
C1_UniqueExtraNonce ==
    /\ \A a, b \in OpenConns :
          a # b => conns[a].extraNonce1Hex # conns[b].extraNonce1Hex
    /\ \A k \in DOMAIN clientMap :
          /\ conns[clientMap[k]].extraNonce1Hex = k
          /\ Len(k) = 8
    /\ \A k1, k2 \in DOMAIN clientMap :
          k1 # k2 => clientMap[k1] # clientMap[k2]
    /\ \A c \in OpenConns : \E k \in DOMAIN clientMap : clientMap[k] = c

\* C1 witness: two clients are in the map together after another one has
\* connected and disconnected.
C1_Witness ==
    /\ Cardinality(DOMAIN clientMap) >= 2
    /\ \E c \in Conns : conns[c].st = "closed"

\* C5: a stop() call made when the server is already stopped changes nothing
\* (no client is disconnected again, the listener is not closed again, the
\* client count stays 0) and invokes its own callback once.
C5_StopIdempotent ==
    [][(isStopped /\ Len(stopCallbacks') = Len(stopCallbacks) + 1) =>
          /\ isStopped'
          /\ clientMap' = clientMap
          /\ Cardinality(DOMAIN clientMap') = 0
          /\ conns' = conns
          /\ listener' = listener
          /\ closeCalls' = closeCalls
          /\ stopTimer' = stopTimer
          /\ stopCallbacks'[Len(stopCallbacks')] = 1]_vars

\* C5 witness: stop() ran twice on a started server that had a client; the
\* second call's callback has run.
C5_Witness ==
    /\ Len(stopCallbacks) = 2
    /\ stopCallbacks[2] = 1
    /\ closeCalls = 1
    /\ \E c \in Conns : conns[c].disconnectReasons = <<ShutdownReason>>

\* C6: once stop() has run the client map is empty and stays empty, no
\* client is left connected, and the stop() step itself asks every client of
\* the map to disconnect with the reason 'Server shutting down'; a
\* connection accepted afterwards is destroyed.
C6_StopDisconnectsAll ==
    /\ [](isStopped => /\ DOMAIN clientMap = {}
                       /\ OpenConns = {})
    /\ [][(~isStopped /\ isStopped') =>
             \A c \in Conns :
                 conns[c].st = "open" =>
                     /\ conns'[c].st = "closed"
                     /\ conns'[c].disconnectReasons = <<ShutdownReason>>]_vars
    /\ [][\A c \in Conns :
             (isStopped /\ conns[c].st = "none" /\ conns'[c].st # "none") =>
                 conns'[c].st = "destroyed"]_vars

\* C6 witness: the server was stopped with a client connected, and a later
\* connection was destroyed because of the stop.
C6_Witness ==
    /\ isStopped
    /\ \E c \in Conns : conns[c].disconnectReasons = <<ShutdownReason>>
    /\ \E c \in Conns : conns[c].st = "destroyed" /\ conns[c].rejected = "stopped"

(***************************************************************************)
(* Claims: VarDiff                                                         *)
(***************************************************************************)
\* C2: every client's difficulty stays inside [minDiff, maxDiff] (and so is
\* never 0) after any sequence of share submissions, the rounding that
\* follows the clamp included.
C2_DiffWithinBounds ==
    \A m \in Miners :
       /\ clients[m].diff >= varDiff.minDiff
       /\ clients[m].diff <= varDiff.maxDiff
       /\ clients[m].diff # 0

\* C3: in proportional mode every adjustment has
\* 0.25 <= newDiff / client.diff <= 4.
C3_ProportionalRatioBounded ==
    varDiff.useProportional =>
       \A i \in 1..Len(adjustments) :
          /\ 4 * adjustments[i].newDiff >= adjustments[i].oldDiff
          /\ adjustments[i].newDiff <= 4 * adjustments[i].oldDiff

\* Adjustments i < j of one client with no adjustment of that client between.
Consecutive(i, j) ==
    /\ i < j
    /\ adjustments[i].client = adjustments[j].client
    /\ \A k \in (i + 1)..(j - 1) : adjustments[k].client # adjustments[i].client

C7_DuplicatePerJobAndExtraNonce ==
    \A i \in 1..Len(registerLog) :
       registerLog[i].result =
          ~(\E k \in 1..(i - 1) :
               /\ registerLog[k].job = registerLog[i].job
               /\ registerLog[k].nonceHex = registerLog[i].nonceHex
               /\ registerLog[k].extraNonce1Hex = registerLog[i].extraNonce1Hex)

\* C7's case: on one job a nonce registered under two extraNonce1 values,
\* both accepted, then one of the pairs again, refused; and the same pair
\* accepted on the other job.
C7_Witness ==
    \E a, b, c, d \in 1..Len(registerLog) :
       /\ a < b /\ b < c
       /\ registerLog[a].job = registerLog[b].job
       /\ registerLog[a].nonceHex = registerLog[b].nonceHex
       /\ registerLog[a].extraNonce1Hex # registerLog[b].extraNonce1Hex
       /\ registerLog[a].result /\ registerLog[b].result
       /\ registerLog[c].job = registerLog[a].job
       /\ registerLog[c].nonceHex = registerLog[a].nonceHex
       /\ registerLog[c].extraNonce1Hex = registerLog[a].extraNonce1Hex
       /\ ~registerLog[c].result
       /\ registerLog[d].job # registerLog[a].job
       /\ registerLog[d].nonceHex = registerLog[a].nonceHex
       /\ registerLog[d].extraNonce1Hex = registerLog[a].extraNonce1Hex
       /\ registerLog[d].result

(***************************************************************************)
(* Claims: Stratum.submitShare                                             *)
(***************************************************************************)
\* The shareSubmitted events emitted for share s.
EventsFor(s) == {e \in 1..Len(emitted) : emitted[e].share = s}

\* C8: an event carries isValidBlock = true only if submitblock accepted the
\* block and the getblock after it succeeded; when submitblock rejects or
\* fails, or getblock fails, the event carries isValidBlock = false and
\* isValidShare = true.
C8_ValidBlockOnlyIfAccepted ==
    \A e \in 1..Len(emitted) :
       LET share == shares[emitted[e].share]
       IN /\ emitted[e].isValidBlock =>
                share.submitOutcome = "accepted" /\ share.checkOutcome = "ok"
          /\ (share.submitOutcome \in {"rejected", "failed"}
                \/ share.checkOutcome = "failed") =>
                ~emitted[e].isValidBlock /\ emitted[e].isValidShare

\* C9: a share is never emitted twice, and a share whose handling has come
\* to its end (no callback is outstanding) has been emitted once.
C9_ExactlyOneEvent ==
    \A s \in 1..Len(shares) :
       /\ Cardinality(EventsFor(s)) <= 1
       /\ shares[s].st \in {"done", "threw"} => Cardinality(EventsFor(s)) = 1

(***************************************************************************)
(* Claims: RpcClient                                                       *)
(***************************************************************************)
\* C10: a request answered by an RPC-level error response is not sent
\* again: the callback has the error at once.
C10_NoRetryOnRpcError ==
    \A r \in 1..Len(reqs) :
       reqs[r].err.isRpcError => reqs[r].st = "done" /\ reqs[r].callbacks = 1


\* C11: a request answered with HTTP 401 or 403 is never sent again, whatever
\* retryAttempts is: once a request's error is flagged isAuthError the
\* request is finished, its callback has been invoked exactly once, and no
\* retry timer or further send follows that answer.
C11_AuthErrorNotRetried ==
    \A r \in 1..Len(reqs) :
        reqs[r].err.isAuthError =>
            /\ reqs[r].st = "done"
            /\ reqs[r].callbacks = 1
            /\ reqs[r].sends = reqs[r].retryCount + 1
            /\ reqs[r].result = ResultNull

\* A client that has retries left answered 401 or 403 to the first send.
C11_Witness ==
    \E r \in 1..Len(reqs) :
        /\ rpcClient.retryAttempts >= 1
        /\ reqs[r].err.isAuthError
        /\ reqs[r].err.message \in {MsgAuthFailed, MsgForbidden}
        /\ reqs[r].st = "done"
        /\ reqs[r].sends = 1


ConnectionTests == {r \in 1..Len(reqs) : reqs[r].owner = InitOwner}

\* C12: an authentication failure (HTTP 401/403) of the connection test ends
\* init() at once: the init callback has been called with that error and no
\* further connection test is scheduled or made.
C12_AuthFailureFatalAtInit ==
    \A r \in ConnectionTests :
        reqs[r].err.isAuthError =>
            /\ initState = "returned"
            /\ initCallbacks = <<reqs[r].err>>
            /\ r = Len(reqs)

\* C16: the listener is started only after the connection test succeeded
\* and the job manager then obtained its first template; when either step
\* failed the listener is never started, isInitialized stays false and the
\* init callback has received the error; isInitialized is true only once
\* the listener has been listening.
C16_InitOrder ==
    /\ isStarted => (rpcConnected = 1 /\ jobManager.hasTemplate)
    /\ jobManager.hasTemplate => rpcConnected = 1
    /\ (initState = "returned" /\ created
        /\ (rpcConnected = 0 \/ ~jobManager.hasTemplate)) =>
          /\ ~isStarted /\ listener = "null"
          /\ ~isInit
          /\ Len(initCallbacks) = 1 /\ ~initCallbacks[1].isNull
    /\ isInit =>
          /\ listener \in {"listening", "closing", "closed"}
          /\ startCallbacks = <<NoErrorCode>>
          /\ initCallbacks = <<NoError>>
    /\ (listener \in {"binding", "failed", "closingUnbound"}) => ~isInit

\* The job manager failed to obtain its template after a successful
\* connection test: init has reported it and nothing was started.
C16_Witness ==
    /\ rpcConnected = 1
    /\ initState = "returned"
    /\ ~jobManager.hasTemplate
    /\ Len(initCallbacks) = 1 /\ initCallbacks[1].message = MsgNoTemplate
    /\ ~isStarted

IsNan(value) == value \in {StrNan, StrMinusNan}

\* The member values with every nan and -nan literal replaced by 0.
NanAsZero(values) ==
    [i \in 1..Len(values) |-> IF IsNan(values[i]) THEN <<"0">> ELSE values[i]]

\* C13: for an HTTP 200 body that is valid JSON but for nan or -nan literals
\* standing as member values, the callback is called without an error and
\* with the result parsed as if every such literal were 0, every other
\* member and the structure unchanged.
C13_NanParsedAsZero ==
    (jsonOut.called /\ \E i \in 1..Len(jsonMembers) : IsNan(jsonMembers[i])) =>
        /\ jsonOut.err = "null"
        /\ jsonOut.result =
              JsonMember(JsonParse(BodyText(NanAsZero(jsonMembers))).v, StrResult)

\* C38: RpcClient._tryParseJson terminates for every response text and
\* returns either a parsed value or the error of JSON.parse, also for a
\* text that is not valid JSON and holds ':nan' or ':-nan' not followed by
\* a comma (followed by '}'): it never ends in the RangeError of a call
\* that calls itself with the text it was given.
C38_TryParseJsonReturns ==
    jsonOut.called =>
        /\ TryParseJson(jsonBody).error \in {"null", "SyntaxError"}
        /\ jsonOut.err # "RangeError"


(***************************************************************************)
(* Claims: job broadcast                                                   *)
(***************************************************************************)
\* The clients in the server's map that are authorized.
AuthorizedInMap ==
    {c \in Conns : /\ \E k \in DOMAIN clientMap : clientMap[k] = c
                   /\ conns[c].isAuthorized}

C15_SendFailureIsolated ==
    [][(nextJobs' # nextJobs /\ isInit /\ lastBroadcast'.failed # {}) =>
          /\ \A c \in AuthorizedInMap \ lastBroadcast'.failed :
                clientJob'[c].job = lastBroadcast'.job
          /\ \A c \in Conns \ (AuthorizedInMap \ lastBroadcast'.failed) :
                clientJob'[c] = clientJob[c]
          /\ UNCHANGED <<conns, clientMap, extraNonceCounter, listener>>]_vars

\* setJob threw for a client, and a client that comes after it in the map
\* was given the job.
C15_Witness ==
    \E a, b \in Conns :
       /\ a \in lastBroadcast.failed
       /\ b \notin lastBroadcast.failed
       /\ conns[a].st = "open" /\ conns[b].st = "open"
       /\ HexValue(conns[a].extraNonce1Hex) < HexValue(conns[b].extraNonce1Hex)
       /\ clientJob[a].job # lastBroadcast.job
       /\ clientJob[b].job = lastBroadcast.job
       /\ lastBroadcast.job > 0


(***************************************************************************)
(* Claims: start.js                                                        *)
(***************************************************************************)
\* C18: the vardiff settings of the operator's configuration are the ones
\* the running engine uses: with vardiff.enabled=false no difficulty
\* adjustment is ever applied to any client, with
\* vardiff.useProportional=false the fixed adjustmentFactor mode is used, and
\* configured minDiff, maxDiff, targetShareTime, retargetTime and
\* variancePercent replace the defaults.
C18_OperatorVardiffUsed ==
    LET section == operatorConfig.vardiff
    IN /\ section.enabled = "false" => adjustments = <<>>
       /\ section.useProportional = "false" => ~varDiff.useProportional
       /\ section.minDiff # 0 => varDiff.minDiff = section.minDiff
       /\ section.maxDiff # 0 => varDiff.maxDiff = section.maxDiff
       /\ section.targetShareTime # 0
             => varDiff.targetShareTime = section.targetShareTime
       /\ section.retargetTime # 0
             => varDiff.retargetTime = section.retargetTime
       /\ section.variancePercent # 0
             => varDiff.variancePercent = section.variancePercent

\* C19: the process exits with code 1 when config.json is missing or cannot
\* be parsed, when coinbaseAddress or the rpc settings are missing, or when
\* Stratum.init reports an error; after SIGINT or SIGTERM it exits with code
\* 0, at the latest 5 seconds after the signal even if the server never
\* finishes stopping.
C19_ExitCodes ==
    /\ (procState = "running" /\ ConfigRejected(operatorConfig))
          => (exited /\ exitCode = 1)
    /\ (\E i \in 1..Len(initCallbacks) : ~initCallbacks[i].isNull)
          => (exited /\ exitCode = 1)
    /\ (destroyCalls > 0 /\ exited) => exitCode = 0
    /\ (destroyCalls > 0 /\ ~exited)
          => (shutdownTimer = "armed" /\ sinceSignal <= ForceExitSeconds)


(***************************************************************************)
(* Claims: Server.start and the client map                                 *)
(***************************************************************************)
StrAlreadyStarted ==
    <<"a", "l", "r", "e", "a", "d", "y", " ", "s", "t", "a", "r", "t", "e",
      "d">>

\* C21: a second call of Server.start, whenever made after a first call,
\* reports an error whose message contains 'already started' to its
\* callback, creates no second listener and leaves the first listener and
\* the client map unchanged.
C21_SecondStartRejected ==
    [][(startCalls' > startCalls /\ startCalls > 0) =>
          /\ Len(restartErrors') = Len(restartErrors) + 1
          /\ Includes(restartErrors'[Len(restartErrors')], StrAlreadyStarted)
          /\ listener' = listener
          /\ clientMap' = clientMap
          /\ conns' = conns
          /\ startCallbacks' = startCallbacks]_vars

\* C21 witness: start() was called a second time while the listener was
\* listening and a client was in the map.
C21_Witness ==
    /\ startCalls = 2
    /\ restartErrors # <<>>
    /\ listener = "listening"
    /\ clientMap # <<>>


\* C22: clientCount always equals the number of accepted connections whose
\* client has not yet emitted a disconnect: accepting a connection adds
\* exactly one entry, a client's disconnect removes exactly its own entry
\* and no other, under any interleaving of connects and disconnects.
C22_ClientCount ==
    /\ [](ClientCount(clientMap) = Cardinality(OpenConns))
    /\ [][\A c \in Conns :
             (conns[c].st = "none" /\ conns'[c].st = "open") =>
                 /\ conns'[c].extraNonce1Hex \notin DOMAIN clientMap
                 /\ clientMap' = MapSet(clientMap, conns'[c].extraNonce1Hex, c)
                 /\ ClientCount(clientMap') = ClientCount(clientMap) + 1]_vars
    /\ [][\A c \in Conns :
             (conns[c].st = "open" /\ conns'[c].st = "closed" /\ ~isStopped') =>
                 /\ DOMAIN clientMap' =
                       DOMAIN clientMap \ {conns[c].extraNonce1Hex}
                 /\ \A k \in DOMAIN clientMap' : clientMap'[k] = clientMap[k]
                 /\ ClientCount(clientMap') = ClientCount(clientMap) - 1]_vars

\* C22 witness: of three accepted connections the second has disconnected
\* by itself; the other two are counted.
C22_Witness ==
    /\ ~isStopped
    /\ conns[1].st = "open" /\ conns[3].st = "open"
    /\ conns[2].st = "closed" /\ conns[2].disconnectReasons = <<>>
    /\ ClientCount(clientMap) = 2


(***************************************************************************)
(* Claims: VarDiff called by itself                                        *)
(***************************************************************************)
\* C23: checkAdjustment returns no adjustment whenever vardiff is disabled,
\* or the client has fewer than 10 recorded share timestamps, or fewer than
\* retargetTime x 1000 milliseconds have passed since the client's
\* lastDifficultyUpdate, whatever the share intervals are.
C23_NoAdjustmentBeforeGates ==
    checkResult.called =>
       LET client == checkResult.client
       IN (\/ ~varDiff.enabled
           \/ Len(client.shareTimestamps) < 10
           \/ checkResult.now - client.lastDifficultyUpdate
                 < varDiff.retargetTime * 1000)
          => /\ ~checkResult.result.shouldAdjust
             /\ checkResult.result = NullAdjustment

\* C23 witness: an enabled engine was asked about a client whose nine
\* shares came 5 s apart and whose difficulty was set 120 s ago.
C23_Witness ==
    /\ checkResult.called
    /\ varDiff.enabled
    /\ Len(checkResult.client.shareTimestamps) = 9
    /\ checkResult.client.shareTimestamps[9]
          - checkResult.client.shareTimestamps[8] = 5000
    /\ checkResult.now - checkResult.client.lastDifficultyUpdate = 120000
    /\ checkResult.result = NullAdjustment

\* C24: whenever checkAdjustment returns an adjustment with reason 'shares
\* too fast' its newDiff is strictly greater than the client's current
\* difficulty, and whenever it returns reason 'shares too slow' its newDiff
\* is strictly lower, in both proportional and fixed-factor mode and for
\* every timestamp ring.
C24_DirectionMatchesReason ==
    (checkResult.called /\ checkResult.result.shouldAdjust) =>
       /\ checkResult.result.reason = "shares too fast"
             => checkResult.result.newDiff > checkResult.client.diff
       /\ checkResult.result.reason = "shares too slow"
             => checkResult.result.newDiff < checkResult.client.diff

\* C25: with the default vardiff settings, a single adjustment raises a
\* client's difficulty by at most a factor 2 when shares come too fast and
\* lowers it to no less than 0.5 times its value when shares come too slow
\* (shares arriving every 5 s against a 15 s target take difficulty 1 to
\* exactly 2; every 30 s take it to exactly 0.5).
C25_DefaultFactorTwo ==
    (checkResult.called /\ varDiff = DefaultEngine) =>
       LET client == checkResult.client
           ts     == client.shareTimestamps
           result == checkResult.result
           every(ms) == /\ Len(ts) = 10
                        /\ \A k \in 2..10 : ts[k] - ts[k - 1] = ms
                        /\ checkResult.now - client.lastDifficultyUpdate
                              = 120000
                        /\ client.diff = DiffOne
       IN /\ (result.shouldAdjust /\ result.reason = "shares too fast")
                => result.newDiff <= 2 * client.diff
          /\ (result.shouldAdjust /\ result.reason = "shares too slow")
                => 2 * result.newDiff >= client.diff
          /\ every(5000) => (result.shouldAdjust
                             /\ result.newDiff = 2 * DiffOne)
          /\ every(30000) => (result.shouldAdjust
                              /\ result.newDiff = DiffOne \div 2)

\* C26: getInitialDiff(portDiff) returns portDiff clamped to [minDiff,
\* maxDiff] when a portDiff is given, and otherwise the rounded geometric
\* mean of minDiff and maxDiff; in both cases the result lies in [minDiff,
\* maxDiff].
C26_InitialDiffWithinBounds ==
    initialDiff.called =>
       LET portDiff == initialDiff.portDiff
           result   == initialDiff.result
           square   == varDiff.minDiff * varDiff.maxDiff
       IN /\ portDiff # NoPortDiff =>
                result = IF portDiff < varDiff.minDiff THEN varDiff.minDiff
                         ELSE IF portDiff > varDiff.maxDiff
                         THEN varDiff.maxDiff ELSE portDiff
          \* within half a step of toFixed(6) of the square root
          /\ portDiff = NoPortDiff =>
                /\ result % FixedStep = 0
                /\ (2 * result + FixedStep) * (2 * result + FixedStep)
                      > 4 * square
                /\ (2 * result < FixedStep
                    \/ (2 * result - FixedStep) * (2 * result - FixedStep)
                          <= 4 * square)
          /\ result >= varDiff.minDiff
          /\ result <= varDiff.maxDiff


(***************************************************************************)
(* Claims: RpcClient retries                                               *)
(***************************************************************************)
\* C27: with retryAttempts configured as N (N >= 0, including N = 0), a
\* command that fails with a retryable transport error on every attempt is
\* sent exactly N+1 times, with retryDelay between sends, and then its
\* callback is invoked once with the error.
C27_SentNPlusOneTimes ==
    \A N \in {c.retryAttempts : c \in RpcConfigs} :
       rpcClient.retryAttempts
          = RpcClientNew([retryAttempts |-> N]).retryAttempts
       => \A r \in 1..Len(reqs) :
             LET req == reqs[r]
             IN /\ (req.st = "done" /\ ShouldRetry(req.err)
                    /\ ~req.err.isRpcError)
                      => /\ req.sends = N + 1
                         /\ req.callbacks = 1
                /\ ((req.st = "retryWait" \/ req.st = "inflight")
                    /\ (req.st = "retryWait" => ~req.err.isRpcError))
                      => /\ req.sends <= N + 1
                         /\ req.callbacks = 0


(***************************************************************************)
(* Claims: accepted blocks, vardiff updates and shutdown order             *)
(***************************************************************************)
\* C28: when a found block is accepted (submitblock returns null and the
\* following getblock succeeds), the emitted share has isValidBlock=true and
\* its blockTxId is populated with the transaction id taken from the
\* getblock response (it is not left undefined).
C28_BlockTxIdPopulated ==
    \A e \in 1..Len(emitted) :
       LET share == shares[emitted[e].share]
       IN (share.submitOutcome = "accepted" /\ share.checkOutcome = "ok")
          => /\ emitted[e].isValidBlock
             /\ emitted[e].blockTxId # "undefined"


\* C29: when checkAdjustment returns an adjustment for a valid share,
\* submitShare sets that client's diff to newDiff and its
\* lastDifficultyUpdate to the current time and sends a difficulty update
\* to that client through the server (the call of sendDifficultyUpdate
\* returns), all before the share event is emitted; no other client's diff,
\* timestamps or lastDifficultyUpdate change.
C29_DifficultyUpdateSent ==
    [][Len(adjustments') > Len(adjustments) =>
          LET a == adjustments'[Len(adjustments')]
              s == Len(shares')
          IN /\ clients'[a.client].diff = a.newDiff
             /\ clients'[a.client].lastDifficultyUpdate = now
             /\ \A m \in Miners \ {a.client} : clients'[m] = clients[m]
             \* the call of sendDifficultyUpdate returned
             /\ shares'[s].st # "threw"]_vars


C31_StopCallbackEventually ==
    /\ (Len(stopCallbacks) > 0)
          ~> (Len(stopCallbacks) > 0 /\ stopCallbacks[1] >= 1)
    /\ [](stopTimer = "fired"
            => (Len(stopCallbacks) > 0 /\ stopCallbacks[1] >= 1))

\* C31 witness: the grace timer has fired while the listener is still
\* closing, and the callback of stop() has run.
C31_Witness ==
    /\ isStarted
    /\ stopTimer = "fired"
    /\ listener = "closing"
    /\ stopCallbacks[1] = 1


(***************************************************************************)
(* Claims: the upstream calls for a block                                  *)
(***************************************************************************)
\* The requests made for share s, by method, as positions in reqs.
RequestsFor(s, method) ==
    {r \in 1..Len(reqs) : reqs[r].owner = s /\ reqs[r].method = method}

\* C32: for a valid block the upstream calls happen in the order
\* submitblock, then JobManager.updateJob, then getblock on the submitted
\* block, and the shareSubmitted event is emitted only after getblock has
\* answered; when submitblock fails or rejects, neither updateJob nor
\* getblock is issued.
C32_BlockCallOrder ==
    \A s \in 1..Len(shares) :
       LET submits == RequestsFor(s, "submitblock")
           checks  == RequestsFor(s, "getblock")
           answered(r) == reqs[r].st = "done"
           refused(r)  == answered(r) /\ (~reqs[r].err.isNull
                                          \/ Truthy(reqs[r].result))
       IN /\ Cardinality(submits) <= 1 /\ Cardinality(checks) <= 1
          \* updateJob is called after submitblock was answered
          /\ shares[s].st = "updateJob"
                => /\ \E r \in submits : answered(r) /\ ~refused(r)
                   /\ checks = {}
          \* getblock is sent after updateJob, which came after submitblock
          /\ \A g \in checks :
                /\ \E r \in submits : r < g /\ answered(r) /\ ~refused(r)
                /\ shares[s].st \in {"getblock", "done", "threw"}
          /\ shares[s].st = "getblock" => \E g \in checks : ~answered(g)
          \* the event of an accepted block waits for getblock's answer
          /\ (EventsFor(s) # {} /\ \E r \in submits : ~refused(r))
                => \E g \in checks : answered(g)
          /\ EventsFor(s) # {} => \A r \in submits : answered(r)
          \* a failed or rejected submitblock ends the handling
          /\ (\E r \in submits : refused(r))
                => /\ checks = {}
                   /\ shares[s].st = "done"
                   /\ EventsFor(s) # {}

\* C32 witness: a block was submitted and accepted, updateJob called back,
\* getblock was answered and the event was emitted after it.
C32_Witness ==
    \E s \in 1..Len(shares) :
       /\ \E r \in RequestsFor(s, "submitblock"), g \in RequestsFor(s, "getblock") :
             r < g /\ reqs[r].st = "done" /\ reqs[g].st = "done"
                   /\ reqs[g].err.isNull
       /\ EventsFor(s) # {}


(***************************************************************************)
(* Claims: what checkAdjustment returns and what it leaves alone           *)
(***************************************************************************)
\* C33: every adjustment returned by checkAdjustment differs from the
\* client's current difficulty by at least 1% of it: a change that is below
\* 1% after clamping and rounding yields no adjustment.
C33_AtLeastOnePercent ==
    (checkResult.called /\ checkResult.result.shouldAdjust) =>
       LET diff   == checkResult.client.diff
           change == IF checkResult.result.newDiff >= diff
                     THEN checkResult.result.newDiff - diff
                     ELSE diff - checkResult.result.newDiff
       IN \/ change > diff \div 100
          \/ change = diff \div 100 /\ diff % 100 = 0

\* C33 witness: shares came every 5 s to a client of difficulty 1 whose
\* engine allows 1.005 at most; the clamped change is half a percent and no
\* adjustment is returned.
C33_Witness ==
    /\ checkResult.called
    /\ varDiff.enabled /\ varDiff.maxDiff = DiffOne + DiffOne \div 200
    /\ checkResult.client.diff = DiffOne
    /\ Len(checkResult.client.shareTimestamps) = 10
    /\ \A k \in 2..10 : checkResult.client.shareTimestamps[k]
                           - checkResult.client.shareTimestamps[k - 1] = 5000
    /\ checkResult.now - checkResult.client.lastDifficultyUpdate = 120000
    /\ checkResult.result = NullAdjustment


(***************************************************************************)
(* Claims: RpcClient's connection state and callbacks                      *)
(***************************************************************************)
\* The requests whose attempt is answered in this step.
AnsweredNow ==
    {r \in 1..Len(reqs) : reqs[r].st = "inflight" /\ reqs'[r].st # "inflight"}

\* C34: each failed attempt (retries included) increments
\* consecutiveFailures by one and sets isConnected to false, each success
\* resets it to 0 and sets isConnected to true, and nothing else changes
\* them; hence in every reachable state, also with overlapping requests,
\* isConnected implies consecutiveFailures = 0.
C34_FailuresSinceLastSuccess ==
    /\ [][/\ \A r \in AnsweredNow :
                IF reqs'[r].err.isNull
                THEN /\ rpcClient'.consecutiveFailures = 0
                     /\ rpcClient'.isConnected
                ELSE /\ rpcClient'.consecutiveFailures
                           = rpcClient.consecutiveFailures + 1
                     /\ ~rpcClient'.isConnected
          /\ AnsweredNow = {} =>
                /\ rpcClient'.consecutiveFailures = rpcClient.consecutiveFailures
                /\ rpcClient'.isConnected = rpcClient.isConnected]_vars
    /\ [](rpcClient.isConnected => rpcClient.consecutiveFailures = 0)

\* C34 witness: two commands are under way at once; one has failed twice,
\* the other has then succeeded, and the count is back at 0.
C34_Witness ==
    /\ Len(reqs) = 2
    /\ reqs[1].st = "done" /\ ~reqs[1].err.isNull /\ reqs[1].sends = 2
    /\ reqs[2].st = "done" /\ reqs[2].err.isNull
    /\ rpcClient.isConnected
    /\ rpcClient.consecutiveFailures = 0


C36_StopCallbackOnce ==
    /\ \A i \in 1..Len(stopCallbacks) :
          /\ stopCallbacks[i] <= 1
          /\ (listener = "closed" \/ stopTimer = "fired")
                => stopCallbacks[i] = 1
    /\ DestroyCallbackRuns(destroyCallbacks, stopCallbacks) <= destroyCalls


(***************************************************************************)
(* Claims: Stratum.init against destroy and against itself                 *)
(***************************************************************************)
\* C37: once Stratum.destroy() has been called, the stratum never
\* afterwards opens its listener for miners and isInitialized never becomes
\* true, even when destroy is called while init is still waiting for the
\* upstream connection test, a startup retry timer, the job manager's
\* initial template or the listener to bind.
C37_NoListenerAfterDestroy ==
    [][isDestroyed =>
          /\ isInit' => isInit
          /\ listener' = "binding" => listener = "binding"
          /\ listener' = "listening" => listener = "listening"]_vars


\* C39: at most one Server, one JobManager and one RpcClient are ever
\* created for a Stratum, and at most one listener is started, also when
\* init() is called again before an earlier init() call has completed.
C39_ComponentsCreatedOnce ==
    /\ Len(servers) <= 1
    /\ Len(jobManagers) <= 1
    /\ Len(rpcClients) <= 1
    /\ Cardinality({s \in 1..Len(servers) : servers[s].listener # "null"}) <= 1


\* C40: every invocation of RpcClient.cmd calls its callback exactly once,
\* after the last attempt: not while an attempt is on the wire or a retry
\* timer is set (never once per retry), not a second time when the socket
\* of an answered attempt delivers a further event (a timeout followed by a
\* socket error, an exception thrown while the response is handled), and
\* not zero times: the step that ends the last attempt is the step that
\* calls it, and a retry timer is set only while attempts are left.
C40_CallbackExactlyOnce ==
    /\ [](\A r \in 1..Len(reqs) :
             /\ reqs[r].callbacks = (IF reqs[r].st = "done" THEN 1 ELSE 0)
             /\ reqs[r].st \in {"inflight", "retryWait", "done"}
             /\ reqs[r].st = "retryWait" =>
                   reqs[r].retryCount < rpcClient.retryAttempts)
    /\ [][\A r \in 1..Len(reqs) :
             /\ reqs[r].st = "done" => reqs'[r].st = "done"
             /\ reqs'[r].callbacks > reqs[r].callbacks =>
                   /\ reqs[r].st = "inflight"
                   /\ reqs'[r].sends = reqs[r].sends]_vars

\* C40 witness: a command was retried, its last attempt has been answered
\* and a further event of its socket has been handled; another command
\* succeeded at once; each has called back once.
C40_Witness ==
    /\ Len(reqs) = 2
    /\ reqs[1].st = "done" /\ reqs[1].sends = 2 /\ reqs[1].lateEvents = 1
    /\ reqs[1].callbacks = 1
    /\ reqs[2].st = "done" /\ reqs[2].sends = 1 /\ reqs[2].err.isNull
    /\ reqs[2].callbacks = 1

=============================================================================
